---- MODULE Spec2Model ----
(***************************************************************************)
(* Backend routing and resilience core of brainpro: circuit breaker        *)
(* (src/src/circuit_breaker.rs), provider health (provider_health.rs),     *)
(* privacy scanner and ZDR filter (privacy.rs) and the routing coordinator *)
(* that composes them.                                                     *)
(*                                                                         *)
(* Time is the monotonic clock (Instant) counted in whole seconds, the     *)
(* unit of recovery_timeout_secs and cooldown_secs.  Option<T> is a        *)
(* sequence: <<>> is None and <<v>> is Some(v).                            *)
(***************************************************************************)
EXTENDS Integers, Sequences, FiniteSets, TLC

\* ---------------------------------------------------------------- bounds
\* Largest failure_threshold / recovery_timeout_secs / half_open_probes drawn.
MaxThreshold == 2
MaxTimeout == 1
MaxProbes == 2
\* The monotonic clock runs from 0 to MaxTime.
MaxTime == 2
\* Number of check / record_success / record_failure calls on the breaker.
MaxOps == 5
\* Longest candidate list handed to route, and number of steps (start, check,
\* transport return) taken by route calls.
MaxCands == 2
MaxSteps == 5
\* Number of record_success / record_failure / breaker check calls made in the
\* health registry scenario.
MaxHealthOps == 3
\* Number of record_success / record_failure calls started by the concurrent
\* callers of the health registry.
MaxRecords == 3
\* Number of scan calls made by the scanners of the process.
MaxScans == 3
\* Number of calls made by the threads whose lock steps are followed.
MaxLockCalls == 3
\* Number of get_status and check calls made beside the recording threads.
MaxStatusOps == 2
\* Number of calls started by the concurrent callers of the breaker registry.
MaxGetCalls == 3
\* Number of calls made on a registry built from an unchecked configuration.
MaxConfigOps == 3
\* Longest audit log built, and largest n passed to recent.
MaxLog == 2
\* jittered_backoff is called on every base from 0 to MaxSmallBase, and on
\* the bases around the backoff values and the cap.
MaxSmallBase == 10

None == <<>>
Some(v) == <<v>>
IsSome(o) == o # <<>>
Unwrap(o) == o[1]

VARIABLES
    now,        \* monotonic clock, seconds
    config,     \* CircuitBreaker.config (immutable per instance)
    cb,         \* CircuitBreaker.state: the CircuitBreakerState behind the RwLock
    trace,      \* history: the last two calls on the breaker, newest first
    run,        \* history: record_failure calls since the last record_success call
    maxRun,     \* history: longest run of record_failure calls so far
    probes,     \* history: record_success calls since the breaker entered HalfOpen
    nops,       \* history: number of calls made on the breaker
    breakers,   \* CircuitBreakerRegistry.breakers: backend -> CircuitBreakerState
    hconfig,    \* ProviderHealthRegistry.config
    linked,     \* ProviderHealthRegistry.circuit_breakers is Some
    providers,  \* ProviderHealthRegistry.providers: backend -> ProviderState
    pconfig,    \* PrivacyScanner.config
    compiled,   \* COMPILED_PATTERNS (OnceLock): None until the first scan
    zdr_map,    \* backend -> bool, defined on the backends that have an entry
    violations, \* PrivacyAuditLog.violations
    pc,         \* position of the route call: "idle", "check" or "call"
    rt,         \* locals of the route call in progress (or of the last one), with
                \* its history: the outcomes it recorded, the providers map and
                \* the audit log it found
    calls,      \* history: backends whose transport this route has called
    nsteps,     \* history: number of steps taken by route calls
    hlast,      \* history: the last call on the health registry
    succLats,   \* history: backend -> latencies of its record_success calls, in order
    tripped,    \* history: backend -> instant of the failure that made it unhealthy
    hops,       \* history: number of record_* / check calls in the health scenario
    threads,    \* position of each thread inside its record_* call
    plock,      \* holder of the write lock on ProviderHealthRegistry.providers
    hlog,       \* history: backend -> outcomes applied to the providers map, in order
    blog,       \* history: backend -> outcomes applied to the backend's breaker, in order
    scanners,   \* the PrivacyScanner instances of the process: id -> config
    lastScan,   \* history: the last scan call and what it returned
    nscans,     \* history: number of scan calls
    sthreads,   \* position of each thread inside its scan call
    initing,    \* COMPILED_PATTERNS (OnceLock): the thread running the initialiser
    initLog,    \* history: scanners whose config the initialiser was run with
    plast,      \* history: the last call on filter_zdr_backends / PrivacyAuditLog
    chat,       \* locals of the chat_sync call, its position and its history
    jlast,      \* history: the last direct call of jittered_backoff
    poisoned,   \* the RwLock of ProviderHealthRegistry.providers is poisoned
    vlast,      \* history: the last call on the registry and how it ended
    vops,       \* history: number of calls made on the registry
    arcs,       \* CircuitBreakerRegistry.breakers: backend -> the Arc it maps to
    heap,       \* the CircuitBreaker instances created so far, in order
    gthreads,   \* position of each thread inside its call on the breaker registry
    gdone,      \* history: backend -> number of completed record_* calls
    gcount,     \* history: number of calls started on the breaker registry
    sreader,    \* position of the thread inside get_status and what it has read
    sops,       \* history: number of get_status and check calls started
    locks,      \* the RwLocks: providers, breakers, and the breaker's state
    lthreads,   \* per thread: the call it is in and the lock steps still ahead
    lmaps,      \* whether the backend has a providers entry / a breaker
    lcalls      \* history: number of calls started

cbVars == <<config, cb, trace, run, maxRun, probes, nops>>
regVars == <<breakers, hconfig, linked, providers>>
privVars == <<pconfig, compiled, zdr_map, violations>>
routeVars == <<pc, rt, calls, nsteps>>
healthHist == <<hlast, succLats, tripped, hops>>
mirrorVars == <<threads, plock, hlog, blog>>
scanVars == <<scanners, lastScan, nscans>>
onceVars == <<sthreads, initing, initLog>>
auditVars == <<plast>>
chatVars == <<chat, jlast>>
validVars == <<poisoned, vlast, vops>>
getVars == <<arcs, heap, gthreads, gdone, gcount>>
statusVars == <<sreader, sops>>
lockVars == <<locks, lthreads, lmaps, lcalls>>
moreVars == <<validVars, getVars, statusVars, lockVars>>
laterVars == <<auditVars, chatVars, moreVars>>
extVars == <<onceVars, laterVars>>
auxVars == <<healthHist, mirrorVars, scanVars, extVars>>
vars == <<now, cbVars, regVars, privVars, routeVars, auxVars>>

\* ------------------------------------------------- circuit_breaker.rs
CircuitStates == {"Closed", "Open", "HalfOpen"}
Decisions == {"Allow", "Reject", "Probe"}

\* CircuitBreakerConfig: every value the struct can hold, within the bounds.
CircuitBreakerConfigs ==
    [failure_threshold : 0..MaxThreshold,
     recovery_timeout_secs : 0..MaxTimeout,
     half_open_probes : 0..MaxProbes,
     enabled : BOOLEAN]

\* impl Default for CircuitBreakerState
CircuitBreakerStateDefault ==
    [state |-> "Closed",
     consecutive_failures |-> 0,
     consecutive_successes |-> 0,
     last_failure_time |-> None,
     total_failures |-> 0,
     total_successes |-> 0,
     total_rejections |-> 0]

\* last_failure.elapsed() >= Duration::from_secs(recovery_timeout_secs)
RecoveryElapsed(cfg, st, t) ==
    /\ IsSome(st.last_failure_time)
    /\ t - Unwrap(st.last_failure_time) >= cfg.recovery_timeout_secs

\* Mutant of CbCheck: the recovery window is compared with > instead of >=.
CbCheck_StrictElapsed(cfg, st, t) ==
    IF ~cfg.enabled THEN [st |-> st, decision |-> "Allow"]
    ELSE CASE st.state = "Closed" -> [st |-> st, decision |-> "Allow"]
           [] st.state = "Open" ->
                IF IsSome(st.last_failure_time)
                   /\ t - Unwrap(st.last_failure_time) > cfg.recovery_timeout_secs
                THEN [st |-> [st EXCEPT !.state = "HalfOpen",
                                        !.consecutive_successes = 0],
                      decision |-> "Probe"]
                ELSE [st |-> [st EXCEPT !.total_rejections = @ + 1],
                      decision |-> "Reject"]
           [] st.state = "HalfOpen" -> [st |-> st, decision |-> "Probe"]

\* CircuitBreaker::check: the new state and the decision returned.
CbCheck(cfg, st, t) ==
    IF ~cfg.enabled THEN [st |-> st, decision |-> "Allow"]
    ELSE CASE st.state = "Closed" -> [st |-> st, decision |-> "Allow"]
           [] st.state = "Open" ->
                IF RecoveryElapsed(cfg, st, t)
                THEN [st |-> [st EXCEPT !.state = "HalfOpen",
                                        !.consecutive_successes = 0],
                      decision |-> "Probe"]
                ELSE [st |-> [st EXCEPT !.total_rejections = @ + 1],
                      decision |-> "Reject"]
           [] st.state = "HalfOpen" -> [st |-> st, decision |-> "Probe"]

\* Mutant of CbRecordSuccess: the probe quota is compared with > instead of >=.
CbRecordSuccess_OneMoreProbe(cfg, st) ==
    IF ~cfg.enabled THEN st
    ELSE LET s1 == [st EXCEPT !.total_successes = @ + 1,
                              !.consecutive_failures = 0]
         IN CASE s1.state = "Closed" -> s1
              [] s1.state = "HalfOpen" ->
                   LET s2 == [s1 EXCEPT !.consecutive_successes = @ + 1]
                   IN IF s2.consecutive_successes > cfg.half_open_probes
                      THEN [s2 EXCEPT !.state = "Closed",
                                      !.consecutive_successes = 0]
                      ELSE s2
              [] s1.state = "Open" -> [s1 EXCEPT !.state = "Closed"]

\* Mutant of CbRecordSuccess: consecutive_failures is reset only when a
\* HalfOpen or Open breaker closes, not on a success in Closed.
CbRecordSuccess_NoResetInClosed(cfg, st) ==
    IF ~cfg.enabled THEN st
    ELSE LET s1 == [st EXCEPT !.total_successes = @ + 1]
         IN CASE s1.state = "Closed" -> s1
              [] s1.state = "HalfOpen" ->
                   LET s2 == [s1 EXCEPT !.consecutive_successes = @ + 1]
                   IN IF s2.consecutive_successes >= cfg.half_open_probes
                      THEN [s2 EXCEPT !.state = "Closed",
                                      !.consecutive_failures = 0,
                                      !.consecutive_successes = 0]
                      ELSE s2
              [] s1.state = "Open" -> [s1 EXCEPT !.state = "Closed",
                                                 !.consecutive_failures = 0]

\* Mutant of CbRecordSuccess: a success on an Open breaker starts probing
\* (HalfOpen) instead of closing the circuit.
CbRecordSuccess_OpenToHalfOpen(cfg, st) ==
    IF ~cfg.enabled THEN st
    ELSE LET s1 == [st EXCEPT !.total_successes = @ + 1,
                              !.consecutive_failures = 0]
         IN CASE s1.state = "Closed" -> s1
              [] s1.state = "HalfOpen" ->
                   LET s2 == [s1 EXCEPT !.consecutive_successes = @ + 1]
                   IN IF s2.consecutive_successes >= cfg.half_open_probes
                      THEN [s2 EXCEPT !.state = "Closed",
                                      !.consecutive_successes = 0]
                      ELSE s2
              [] s1.state = "Open" -> [s1 EXCEPT !.state = "HalfOpen"]

\* CircuitBreaker::record_success
CbRecordSuccess(cfg, st) ==
    IF ~cfg.enabled THEN st
    ELSE LET s1 == [st EXCEPT !.total_successes = @ + 1,
                              !.consecutive_failures = 0]
         IN CASE s1.state = "Closed" -> s1
              [] s1.state = "HalfOpen" ->
                   LET s2 == [s1 EXCEPT !.consecutive_successes = @ + 1]
                   IN IF s2.consecutive_successes >= cfg.half_open_probes
                      THEN [s2 EXCEPT !.state = "Closed",
                                      !.consecutive_successes = 0]
                      ELSE s2
              [] s1.state = "Open" -> [s1 EXCEPT !.state = "Closed"]

\* Mutant of CbRecordFailure: the threshold is compared with > instead of >=.
\* Mutant of CbRecordFailure: a failure reported while the breaker is Open
\* does not lengthen the run of consecutive failures.
CbRecordFailure_OpenUncounted(cfg, st, t) ==
    IF ~cfg.enabled THEN st
    ELSE LET s1 == [st EXCEPT !.total_failures = @ + 1,
                              !.consecutive_failures =
                                  IF st.state = "Open" THEN @ ELSE @ + 1,
                              !.consecutive_successes = 0,
                              !.last_failure_time = Some(t)]
         IN CASE s1.state = "Closed" ->
                   IF s1.consecutive_failures >= cfg.failure_threshold
                   THEN [s1 EXCEPT !.state = "Open"]
                   ELSE s1
              [] s1.state = "HalfOpen" -> [s1 EXCEPT !.state = "Open"]
              [] s1.state = "Open" -> s1

CbRecordFailure_OffByOne(cfg, st, t) ==
    IF ~cfg.enabled THEN st
    ELSE LET s1 == [st EXCEPT !.total_failures = @ + 1,
                              !.consecutive_failures = @ + 1,
                              !.consecutive_successes = 0,
                              !.last_failure_time = Some(t)]
         IN CASE s1.state = "Closed" ->
                   IF s1.consecutive_failures > cfg.failure_threshold
                   THEN [s1 EXCEPT !.state = "Open"]
                   ELSE s1
              [] s1.state = "HalfOpen" -> [s1 EXCEPT !.state = "Open"]
              [] s1.state = "Open" -> s1

\* Mutant of CbRecordFailure: a HalfOpen breaker is treated like a Closed one
\* and reopens only once the threshold is met again.
CbRecordFailure_HalfOpenLikeClosed(cfg, st, t) ==
    IF ~cfg.enabled THEN st
    ELSE LET s1 == [st EXCEPT !.total_failures = @ + 1,
                              !.consecutive_failures = @ + 1,
                              !.consecutive_successes = 0,
                              !.last_failure_time = Some(t)]
         IN CASE s1.state \in {"Closed", "HalfOpen"} ->
                   IF s1.consecutive_failures >= cfg.failure_threshold
                   THEN [s1 EXCEPT !.state = "Open"]
                   ELSE s1
              [] s1.state = "Open" -> s1

\* Mutant of CbRecordFailure: the enabled flag is not consulted.
CbRecordFailure_IgnoresEnabled(cfg, st, t) ==
    LET s1 == [st EXCEPT !.total_failures = @ + 1,
                         !.consecutive_failures = @ + 1,
                         !.consecutive_successes = 0,
                         !.last_failure_time = Some(t)]
    IN CASE s1.state = "Closed" ->
              IF s1.consecutive_failures >= cfg.failure_threshold
              THEN [s1 EXCEPT !.state = "Open"]
              ELSE s1
         [] s1.state = "HalfOpen" -> [s1 EXCEPT !.state = "Open"]
         [] s1.state = "Open" -> s1

\* Mutant of CbRecordFailure: a failure on an Open breaker keeps the time of
\* the failure that opened it.
CbRecordFailure_KeepsOpeningTime(cfg, st, t) ==
    IF ~cfg.enabled THEN st
    ELSE LET s1 == [st EXCEPT !.total_failures = @ + 1,
                              !.consecutive_failures = @ + 1,
                              !.consecutive_successes = 0,
                              !.last_failure_time =
                                  IF st.state = "Open" THEN @ ELSE Some(t)]
         IN CASE s1.state = "Closed" ->
                   IF s1.consecutive_failures >= cfg.failure_threshold
                   THEN [s1 EXCEPT !.state = "Open"]
                   ELSE s1
              [] s1.state = "HalfOpen" -> [s1 EXCEPT !.state = "Open"]
              [] s1.state = "Open" -> s1

\* CircuitBreaker::record_failure
CbRecordFailure(cfg, st, t) ==
    IF ~cfg.enabled THEN st
    ELSE LET s1 == [st EXCEPT !.total_failures = @ + 1,
                              !.consecutive_failures = @ + 1,
                              !.consecutive_successes = 0,
                              !.last_failure_time = Some(t)]
         IN CASE s1.state = "Closed" ->
                   IF s1.consecutive_failures >= cfg.failure_threshold
                   THEN [s1 EXCEPT !.state = "Open"]
                   ELSE s1
              [] s1.state = "HalfOpen" -> [s1 EXCEPT !.state = "Open"]
              [] s1.state = "Open" -> s1

\* CircuitBreakerRegistry: the map holds the breakers created so far.
Backends == {"b1", "b2"}

EmptyMap == [x \in {} |-> x]

Put(map, k, v) == [x \in DOMAIN map \cup {k} |-> IF x = k THEN v ELSE map[x]]

\* HashMap::get: the entry of b in a map, None when b has none.
EntryOf(map, b) == IF b \in DOMAIN map THEN Some(map[b]) ELSE None

\* CircuitBreakerRegistry::get: the breaker of a backend, created on first use.
RegGet(brs, b) == IF b \in DOMAIN brs THEN brs[b] ELSE CircuitBreakerStateDefault

\* CircuitBreakerRegistry::check: the registry after the call and the decision.
RegCheck(cfg, brs, b, t) ==
    LET r == CbCheck(cfg, RegGet(brs, b), t)
    IN [breakers |-> Put(brs, b, r.st), decision |-> r.decision]

\* CircuitBreakerRegistry::record_success
RegRecordSuccess(cfg, brs, b) == Put(brs, b, CbRecordSuccess(cfg, RegGet(brs, b)))

\* Mutant of RegRecordFailure: the failure reaches every breaker of the map.
RegRecordFailure_AllBreakers(cfg, brs, b, t) ==
    [x \in DOMAIN brs \cup {b} |-> CbRecordFailure(cfg, RegGet(brs, x), t)]

\* CircuitBreakerRegistry::record_failure
RegRecordFailure(cfg, brs, b, t) == Put(brs, b, CbRecordFailure(cfg, RegGet(brs, b), t))

\* CircuitBreakerRegistry::is_open: false for a backend with no breaker.
IsOpen(brs, b) == b \in DOMAIN brs /\ brs[b].state = "Open"

\* -------------------------------------------------- provider_health.rs
HealthStates == {"Healthy", "Degraded", "Unhealthy"}

\* #[derive(Default)] struct ProviderState
ProviderStateDefault ==
    [consecutive_failures |-> 0,
     consecutive_successes |-> 0,
     recent_latencies |-> <<>>,
     latency_index |-> 0,
     total_requests |-> 0,
     successful_requests |-> 0,
     failed_requests |-> 0,
     last_success |-> None,
     last_failure |-> None,
     cooldown_until |-> None]

\* impl Default for HealthConfig
HealthConfigDefault ==
    [degraded_latency_ms |-> 5000,
     degraded_failure_count |-> 2,
     unhealthy_failure_count |-> 5,
     cooldown_secs |-> 60,
     latency_window |-> 10]

\* Mutant of AddLatency: a full window is overwritten one slot further on.
AddLatency_NextSlot(st, latency_ms, window_size) ==
    IF Len(st.recent_latencies) < window_size
    THEN [st EXCEPT !.recent_latencies = Append(@, latency_ms)]
    ELSE [st EXCEPT !.recent_latencies[((st.latency_index + 1) % window_size) + 1] = latency_ms,
                    !.latency_index = @ + 1]

\* ProviderState::add_latency (window_size >= 1; recent_latencies is 1-based here)
AddLatency(st, latency_ms, window_size) ==
    IF Len(st.recent_latencies) < window_size
    THEN [st EXCEPT !.recent_latencies = Append(@, latency_ms)]
    ELSE [st EXCEPT !.recent_latencies[(st.latency_index % window_size) + 1] = latency_ms,
                    !.latency_index = @ + 1]

RECURSIVE SumSeq(_)
SumSeq(q) == IF q = <<>> THEN 0 ELSE Head(q) + SumSeq(Tail(q))

\* ProviderState::avg_latency: sum / len in f64, 0.0 when there is no latency.
\* The quotient is kept as the pair <<numerator, denominator>>.
AvgLatency(st) ==
    IF st.recent_latencies = <<>> THEN <<0, 1>>
    ELSE <<SumSeq(st.recent_latencies), Len(st.recent_latencies)>>

\* ProviderState::avg_latency() > degraded_latency_ms as f64.  The mean is
\* sum / len in f64 (0.0 when empty), exact at these magnitudes, so the
\* comparison is sum > degraded_latency_ms * len.
AvgLatencyAbove(st, degraded_latency_ms) ==
    /\ st.recent_latencies # <<>>
    /\ SumSeq(st.recent_latencies) > degraded_latency_ms * Len(st.recent_latencies)

\* ProviderState::is_in_cooldown
IsInCooldown(st, t) == IsSome(st.cooldown_until) /\ t < Unwrap(st.cooldown_until)

\* Mutant of ComputeState: the degraded failure count is looked at before the
\* unhealthy one.
ComputeState_DegradedFirst(st, hc, t) ==
    IF IsSome(st.cooldown_until) /\ t < Unwrap(st.cooldown_until) THEN "Unhealthy"
    ELSE IF st.consecutive_failures >= hc.degraded_failure_count THEN "Degraded"
    ELSE IF st.consecutive_failures >= hc.unhealthy_failure_count THEN "Unhealthy"
    ELSE IF AvgLatencyAbove(st, hc.degraded_latency_ms) THEN "Degraded"
    ELSE "Healthy"

\* ProviderState::compute_state
ComputeState(st, hc, t) ==
    IF IsSome(st.cooldown_until) /\ t < Unwrap(st.cooldown_until) THEN "Unhealthy"
    ELSE IF st.consecutive_failures >= hc.unhealthy_failure_count THEN "Unhealthy"
    ELSE IF st.consecutive_failures >= hc.degraded_failure_count THEN "Degraded"
    ELSE IF AvgLatencyAbove(st, hc.degraded_latency_ms) THEN "Degraded"
    ELSE "Healthy"

\* providers.entry(backend).or_default()
EntryOrDefault(provs, b) == IF b \in DOMAIN provs THEN provs[b] ELSE ProviderStateDefault

\* Mutant of HealthRecordSuccess: the request is not counted.
HealthRecordSuccess_Uncounted(hc, provs, b, latency_ms, t) ==
    LET s0 == EntryOrDefault(provs, b)
        s1 == [s0 EXCEPT !.consecutive_successes = @ + 1,
                         !.consecutive_failures = 0,
                         !.last_success = Some(t)]
        s2 == AddLatency(s1, latency_ms, hc.latency_window)
    IN Put(provs, b, [s2 EXCEPT !.cooldown_until = None])

\* ProviderHealthRegistry::record_success, the part on the providers map.
HealthRecordSuccess(hc, provs, b, latency_ms, t) ==
    LET s0 == EntryOrDefault(provs, b)
        s1 == [s0 EXCEPT !.total_requests = @ + 1,
                         !.successful_requests = @ + 1,
                         !.consecutive_successes = @ + 1,
                         !.consecutive_failures = 0,
                         !.last_success = Some(t)]
        s2 == AddLatency(s1, latency_ms, hc.latency_window)
    IN Put(provs, b, [s2 EXCEPT !.cooldown_until = None])

\* Mutant of HealthRecordFailure: the run of successes is not reset.
HealthRecordFailure_KeepsSuccessRun(hc, provs, b, t) ==
    LET s0 == EntryOrDefault(provs, b)
        s1 == [s0 EXCEPT !.total_requests = @ + 1,
                         !.failed_requests = @ + 1,
                         !.consecutive_failures = @ + 1,
                         !.last_failure = Some(t)]
    IN Put(provs, b,
           IF s1.consecutive_failures >= hc.unhealthy_failure_count
           THEN [s1 EXCEPT !.cooldown_until = Some(t + hc.cooldown_secs)]
           ELSE s1)

\* Mutant of HealthRecordFailure: the cooldown starts one failure late.
HealthRecordFailure_StrictlyAbove(hc, provs, b, t) ==
    LET s0 == EntryOrDefault(provs, b)
        s1 == [s0 EXCEPT !.total_requests = @ + 1,
                         !.failed_requests = @ + 1,
                         !.consecutive_failures = @ + 1,
                         !.consecutive_successes = 0,
                         !.last_failure = Some(t)]
    IN Put(provs, b,
           IF s1.consecutive_failures > hc.unhealthy_failure_count
           THEN [s1 EXCEPT !.cooldown_until = Some(t + hc.cooldown_secs)]
           ELSE s1)

\* ProviderHealthRegistry::record_failure, the part on the providers map.
HealthRecordFailure(hc, provs, b, t) ==
    LET s0 == EntryOrDefault(provs, b)
        s1 == [s0 EXCEPT !.total_requests = @ + 1,
                         !.failed_requests = @ + 1,
                         !.consecutive_failures = @ + 1,
                         !.consecutive_successes = 0,
                         !.last_failure = Some(t)]
    IN Put(provs, b,
           IF s1.consecutive_failures >= hc.unhealthy_failure_count
           THEN [s1 EXCEPT !.cooldown_until = Some(t + hc.cooldown_secs)]
           ELSE s1)

\* Mutant of IsAvailable: the linked breaker is not consulted.
IsAvailable_IgnoresBreaker(hc, provs, lnk, brs, b, t) ==
    IF b \in DOMAIN provs
    THEN IF IsInCooldown(provs[b], t) THEN FALSE
         ELSE ComputeState(provs[b], hc, t) # "Unhealthy"
    ELSE TRUE

\* Mutant of IsAvailable: only the linked breaker is consulted.
IsAvailable_BreakerOnly(hc, provs, lnk, brs, b, t) ==
    ~(lnk /\ IsOpen(brs, b))

\* ProviderHealthRegistry::is_available
IsAvailable(hc, provs, lnk, brs, b, t) ==
    IF lnk /\ IsOpen(brs, b) THEN FALSE
    ELSE IF b \in DOMAIN provs
         THEN IF IsInCooldown(provs[b], t) THEN FALSE
              ELSE ComputeState(provs[b], hc, t) # "Unhealthy"
         ELSE TRUE

\* ProviderHealthRegistry::filter_available
FilterAvailable(hc, provs, lnk, brs, backs, t) ==
    LET Keep(b) == IsAvailable(hc, provs, lnk, brs, b, t)
    IN SelectSeq(backs, Keep)

\* ----------------------------------------------------------- privacy.rs
PrivacyLevels == {"Standard", "Sensitive", "Strict"}

\* PrivacyLevel::requires_zdr
RequiresZdr(level) == level = "Strict"

\* PrivacyLevel::prefers_zdr
PrefersZdr(level) == level \in {"Sensitive", "Strict"}

\* Text is a sequence of characters.  A pattern is a literal, a sequence of
\* characters; a pattern holding "(" stands for one the regex crate rejects.
Chars == {"k", "K", "x"}
Lower(c) == IF c = "K" THEN "k" ELSE c
IsValidPattern(p) == \A i \in 1..Len(p) : p[i] # "("

\* Regex::new("(?i)" + p).is_match(text): p occurs in text, ignoring case.
IsMatch(p, text) ==
    \E off \in 0..(Len(text) - Len(p)) :
        \A i \in 1..Len(p) : Lower(text[off + i]) = Lower(p[i])

\* CompiledPatterns::new: the patterns that compile, in order.
CompiledPatternsNew(patterns) == SelectSeq(patterns, IsValidPattern)

\* CompiledPatterns::find_matches
FindMatches(pats, text) ==
    LET Keep(p) == IsMatch(p, text)
    IN SelectSeq(pats, Keep)

\* get_compiled_patterns: OnceLock::get_or_init, the cell after the call.
GetCompiledPatterns(cell, cfg) ==
    IF IsSome(cell) THEN cell ELSE Some(CompiledPatternsNew(cfg.strict_patterns))

\* Mutant of Scan: escalated is set whenever a pattern matched.
Scan_EscalatedWhenDetected(cfg, pats, prompt) ==
    LET matched == FindMatches(pats, prompt)
        sensitive_detected == matched # <<>>
    IN [level |-> IF sensitive_detected THEN "Strict" ELSE cfg.default_level,
        sensitive_detected |-> sensitive_detected,
        matched_patterns |-> matched,
        escalated |-> sensitive_detected]

\* PrivacyScanner::scan, given the compiled patterns.
Scan(cfg, pats, prompt) ==
    LET matched == FindMatches(pats, prompt)
        sensitive_detected == matched # <<>>
    IN [level |-> IF sensitive_detected THEN "Strict" ELSE cfg.default_level,
        sensitive_detected |-> sensitive_detected,
        matched_patterns |-> matched,
        escalated |-> sensitive_detected /\ cfg.default_level # "Strict"]

\* PrivacyScanner::is_backend_acceptable
IsBackendAcceptable(backend_zdr, level) ==
    CASE level = "Standard" -> TRUE
      [] level = "Sensitive" -> TRUE
      [] level = "Strict" -> backend_zdr

\* backend_zdr_map.get(b).copied().unwrap_or(false)
ZdrOf(map, b) == IF b \in DOMAIN map THEN map[b] ELSE FALSE

\* Mutant of FilterZdrBackends: a backend with no entry in the map passes
\* (unwrap_or(true)).
FilterZdrBackends_MissingPasses(backs, map, require_zdr) ==
    IF ~require_zdr THEN backs
    ELSE LET Keep(b) == IF b \in DOMAIN map THEN map[b] ELSE TRUE
         IN SelectSeq(backs, Keep)

\* Mutant of FilterZdrBackends: require_zdr is not consulted.
FilterZdrBackends_AlwaysFilters(backs, map, require_zdr) ==
    LET Keep(b) == ZdrOf(map, b)
    IN SelectSeq(backs, Keep)

\* filter_zdr_backends
FilterZdrBackends(backs, map, require_zdr) ==
    IF ~require_zdr THEN backs
    ELSE LET Keep(b) == ZdrOf(map, b)
         IN SelectSeq(backs, Keep)

\* Mutant of RecordViolation: the level is not looked at.
RecordViolation_AnyLevel(log, privacy_level, backend, backend_has_zdr, matched_patterns) ==
    IF ~backend_has_zdr
    THEN Append(log, [privacy_level |-> privacy_level,
                      backend |-> backend,
                      backend_has_zdr |-> backend_has_zdr,
                      matched_patterns |-> matched_patterns])
    ELSE log

\* Mutant of RecordViolation: requires_zdr is asked in place of prefers_zdr.
RecordViolation_StrictOnly(log, privacy_level, backend, backend_has_zdr, matched_patterns) ==
    IF RequiresZdr(privacy_level) /\ ~backend_has_zdr
    THEN Append(log, [privacy_level |-> privacy_level,
                      backend |-> backend,
                      backend_has_zdr |-> backend_has_zdr,
                      matched_patterns |-> matched_patterns])
    ELSE log

\* PrivacyAuditLog::record_violation: the log after the call.  The record's
\* wall-clock timestamp is left out.
RecordViolation(log, privacy_level, backend, backend_has_zdr, matched_patterns) ==
    IF PrefersZdr(privacy_level) /\ ~backend_has_zdr
    THEN Append(log, [privacy_level |-> privacy_level,
                      backend |-> backend,
                      backend_has_zdr |-> backend_has_zdr,
                      matched_patterns |-> matched_patterns])
    ELSE log

\* ------------------------------------------- one CircuitBreaker instance
\* History kept for the properties: what the last two calls were, the state
\* each found, and what check returned.
Push(op, pre, dec) ==
    trace' = <<[op |-> op, pre |-> pre, decision |-> dec, at |-> now]>>
             \o (IF trace = <<>> THEN <<>> ELSE <<trace[1]>>)

\* Empty registries, no scan made, no route call made.
RouteIdle ==
    [prompt |-> <<>>, candidates |-> <<>>, scan |-> Scan([default_level |-> "Standard"], <<>>, <<>>),
     available |-> <<>>, idx |-> 0, result |-> "None",
     recorded |-> <<>>, error |-> None, providers0 |-> EmptyMap,
     violations0 |-> <<>>]

\* No thread inside a scan.
OnceIdle ==
    /\ sthreads = EmptyMap
    /\ initing = None
    /\ initLog = <<>>

\* No call made on the audit log or the ZDR filter.
AuditIdle == plast = [op |-> "none"]

\* No chat call made.
ChatIdle == chat = [pc |-> "idle"]

\* No direct call of jittered_backoff.
JitterIdle == jlast = [op |-> "none"]

\* No registry built from an unchecked configuration.
ValidIdle ==
    /\ poisoned = FALSE
    /\ vlast = [op |-> "none"]
    /\ vops = 0

\* No concurrent caller of a breaker registry.
GetIdle ==
    /\ arcs = EmptyMap
    /\ heap = <<>>
    /\ gthreads = EmptyMap
    /\ gdone = EmptyMap
    /\ gcount = 0

\* No caller inside get_status.
StatusIdle ==
    /\ sreader = [pc |-> "idle"]
    /\ sops = 0

\* No lock is modelled as such.
LockIdle ==
    /\ locks = EmptyMap
    /\ lthreads = EmptyMap
    /\ lmaps = EmptyMap
    /\ lcalls = 0

MoreIdle == ValidIdle /\ GetIdle /\ StatusIdle /\ LockIdle

LaterIdle == AuditIdle /\ ChatIdle /\ JitterIdle /\ MoreIdle

ExtIdle == OnceIdle /\ LaterIdle

\* No call made on a health registry, no thread inside one, no scanner.
AuxIdle ==
    /\ ExtIdle
    /\ hlast = [op |-> "none"]
    /\ succLats = EmptyMap
    /\ tripped = EmptyMap
    /\ hops = 0
    /\ threads = EmptyMap
    /\ plock = None
    /\ hlog = EmptyMap
    /\ blog = EmptyMap
    /\ scanners = EmptyMap
    /\ lastScan = [scanner |-> "none"]
    /\ nscans = 0

RegistriesIdle ==
    /\ breakers = EmptyMap
    /\ hconfig = HealthConfigDefault
    /\ linked = FALSE
    /\ providers = EmptyMap
    /\ pconfig = [default_level |-> "Standard", strict_patterns |-> <<>>]
    /\ compiled = None
    /\ zdr_map = EmptyMap
    /\ violations = <<>>
    /\ pc = "idle"
    /\ rt = RouteIdle
    /\ calls = <<>>
    /\ nsteps = 0

\* CircuitBreaker::new
InitCB ==
    /\ now = 0
    /\ config \in CircuitBreakerConfigs
    /\ cb = CircuitBreakerStateDefault
    /\ trace = <<>>
    /\ run = 0
    /\ maxRun = 0
    /\ probes = 0
    /\ nops = 0
    /\ RegistriesIdle
    /\ AuxIdle

Check ==
    /\ nops < MaxOps
    /\ LET r == CbCheck(config, cb, now)
       IN /\ cb' = r.st
          /\ Push("check", cb, r.decision)
          /\ probes' = IF cb.state = "Open" /\ r.st.state = "HalfOpen" THEN 0 ELSE probes
    /\ nops' = nops + 1
    /\ UNCHANGED <<auxVars, now, config, run, maxRun, regVars, privVars, routeVars>>

RecordSuccess ==
    /\ nops < MaxOps
    /\ cb' = CbRecordSuccess(config, cb)
    /\ Push("record_success", cb, "-")
    /\ run' = 0
    /\ probes' = probes + 1
    /\ nops' = nops + 1
    /\ UNCHANGED <<auxVars, now, config, maxRun, regVars, privVars, routeVars>>

RecordFailure ==
    /\ nops < MaxOps
    /\ cb' = CbRecordFailure(config, cb, now)
    /\ Push("record_failure", cb, "-")
    /\ run' = run + 1
    /\ maxRun' = IF run + 1 > maxRun THEN run + 1 ELSE maxRun
    /\ probes' = 0
    /\ nops' = nops + 1
    /\ UNCHANGED <<auxVars, now, config, regVars, privVars, routeVars>>

\* The monotonic clock advances between calls.
Tick ==
    /\ now < MaxTime
    /\ now' = now + 1
    /\ UNCHANGED <<auxVars, cbVars, regVars, privVars, routeVars>>

NextCB == Check \/ RecordSuccess \/ RecordFailure \/ Tick

Spec == InitCB /\ [][NextCB]_vars

\* ------------------------------------------------ routing coordinator
\* route(request, prompt_text, candidates, zdr_map): classify, filter by ZDR,
\* filter by availability, then try the survivors in order.

\* Configurations the coordinator is exercised with.
RouteBreakerConfigs ==
    [failure_threshold : {1},
     recovery_timeout_secs : {1},
     half_open_probes : {1},
     enabled : {TRUE}]

RouteHealthConfigs ==
    [degraded_latency_ms : {2},
     degraded_failure_count : {1},
     unhealthy_failure_count : {2},
     cooldown_secs : {1},
     latency_window : {2}]

RoutePrivacyConfigs ==
    [default_level : PrivacyLevels,
     strict_patterns : {<< <<"(">>, <<"k">> >>}]

\* Every zdr_map over the backends: an entry true, an entry false, or no entry.
ZdrMaps == UNION {[D -> BOOLEAN] : D \in SUBSET Backends}

\* Candidate lists, duplicates allowed, and prompts.
RECURSIVE SeqsUpTo(_, _)
SeqsUpTo(S, n) ==
    IF n = 0 THEN {<<>>}
    ELSE LET shorter == SeqsUpTo(S, n - 1)
         IN shorter \cup {Append(q, x) : q \in shorter, x \in S}

Prompts == {<<"x">>, <<"x", "K">>}
Latencies == {3}

InitRoute ==
    /\ now = 0
    /\ config \in RouteBreakerConfigs
    /\ cb = CircuitBreakerStateDefault
    /\ trace = <<>>
    /\ run = 0
    /\ maxRun = 0
    /\ probes = 0
    /\ nops = 0
    /\ breakers = EmptyMap
    /\ hconfig \in RouteHealthConfigs
    /\ linked = TRUE
    /\ providers = EmptyMap
    /\ pconfig \in RoutePrivacyConfigs
    /\ compiled = None
    /\ zdr_map \in ZdrMaps
    /\ violations = <<>>
    /\ pc = "idle"
    /\ rt = RouteIdle
    /\ calls = <<>>
    /\ nsteps = 0
    /\ AuxIdle

\* scan, filter_zdr_backends, filter_available; fail NoEligibleBackend when
\* nothing is left.
RouteStart ==
    /\ pc = "idle"
    /\ nsteps < MaxSteps
    /\ \E prompt \in Prompts, candidates \in SeqsUpTo(Backends, MaxCands) :
          LET cell == GetCompiledPatterns(compiled, pconfig)
              scan == Scan(pconfig, Unwrap(cell), prompt)
              allowed == FilterZdrBackends(candidates, zdr_map, RequiresZdr(scan.level))
              available == FilterAvailable(hconfig, providers, linked, breakers, allowed, now)
          IN /\ compiled' = cell
             /\ rt' = [prompt |-> prompt, candidates |-> candidates, scan |-> scan,
                       available |-> available,
                       idx |-> IF available = <<>> THEN 0 ELSE 1,
                       result |-> IF available = <<>> THEN "NoEligibleBackend" ELSE "None",
                       recorded |-> <<>>, error |-> None, providers0 |-> providers,
                       violations0 |-> violations]
             /\ pc' = IF available = <<>> THEN "idle" ELSE "check"
    /\ calls' = <<>>
    /\ nsteps' = nsteps + 1
    /\ UNCHANGED <<auxVars, now, cbVars, regVars, pconfig, zdr_map, violations>>

\* "continue": the next candidate, or fail AllBackendsFailed after the last.
RouteContinue(r) ==
    IF r.idx = Len(r.available)
    THEN /\ rt' = [r EXCEPT !.result = "AllBackendsFailed"]
         /\ pc' = "idle"
    ELSE /\ rt' = [r EXCEPT !.idx = @ + 1]
         /\ pc' = "check"

\* decision := breakers.check(b); Reject skips the backend, otherwise the
\* transport of b is called.
RouteCheck ==
    /\ pc = "check"
    /\ nsteps < MaxSteps
    /\ nsteps' = nsteps + 1
    /\ LET b == rt.available[rt.idx]
           r == RegCheck(config, breakers, b, now)
       IN /\ breakers' = r.breakers
          /\ IF r.decision = "Reject"
             THEN RouteContinue(rt) /\ UNCHANGED calls
             ELSE /\ pc' = "call"
                  /\ calls' = Append(calls, b)
                  /\ UNCHANGED rt
    /\ UNCHANGED <<auxVars, now, cbVars, hconfig, linked, providers, privVars>>

\* The transport returns a response: health.record_success(b, latency), which
\* mirrors to the breakers when linked, the audit record, and the result.
RouteCallOk ==
    /\ pc = "call"
    /\ nsteps < MaxSteps
    /\ nsteps' = nsteps + 1
    /\ \E latency \in Latencies :
          LET b == rt.available[rt.idx]
          IN /\ providers' = HealthRecordSuccess(hconfig, providers, b, latency, now)
             /\ breakers' = IF linked THEN RegRecordSuccess(config, breakers, b)
                            ELSE breakers
             /\ violations' = IF ~RequiresZdr(rt.scan.level) /\ ~ZdrOf(zdr_map, b)
                              THEN RecordViolation(violations, rt.scan.level, b, FALSE,
                                                   rt.scan.matched_patterns)
                              ELSE violations
    /\ rt' = [rt EXCEPT !.result = "Ok",
                        !.recorded = Append(@, [idx |-> rt.idx,
                                                b |-> rt.available[rt.idx],
                                                outcome |-> "success"])]
    /\ pc' = "idle"
    /\ UNCHANGED <<auxVars, now, cbVars, hconfig, linked, pconfig, compiled, zdr_map, calls>>

\* The transport fails: health.record_failure(b), then the next candidate; the
\* error of the call is kept (as the position of the backend that gave it).
RouteCallFailed ==
    /\ pc = "call"
    /\ nsteps < MaxSteps
    /\ nsteps' = nsteps + 1
    /\ LET b == rt.available[rt.idx]
       IN /\ providers' = HealthRecordFailure(hconfig, providers, b, now)
          /\ breakers' = IF linked THEN RegRecordFailure(config, breakers, b, now)
                         ELSE breakers
    /\ RouteContinue([rt EXCEPT !.recorded = Append(@, [idx |-> rt.idx,
                                                        b |-> rt.available[rt.idx],
                                                        outcome |-> "failure"]),
                                !.error = Some(rt.idx)])
    /\ UNCHANGED <<auxVars, now, cbVars, hconfig, linked, privVars, calls>>

NextRoute == RouteStart \/ RouteCheck \/ RouteCallOk \/ RouteCallFailed \/ Tick

SpecRoute == InitRoute /\ [][NextRoute]_vars

\* ------------------------------------------- ProviderHealthRegistry alone
\* The registry driven directly by its callers: record_success and
\* record_failure with any backend and latency, the reads get_health,
\* is_available and filter_available, and, when a breaker registry is linked,
\* check calls made on that registry by its other users.
HealthConfigs ==
    [degraded_latency_ms : {2},
     degraded_failure_count : {1},
     unhealthy_failure_count : {0, 1, 2},
     cooldown_secs : {1},
     latency_window : {1, 2}]

HealthBreakerConfigs ==
    [failure_threshold : {1},
     recovery_timeout_secs : {1},
     half_open_probes : {1},
     enabled : {TRUE}]

HLatencies == {1, 4}

\* ProviderHealthRegistry::get_health
GetHealth(hc, provs, b, t) ==
    IF b \in DOMAIN provs THEN ComputeState(provs[b], hc, t) ELSE "Healthy"

LatsOf(m, b) == IF b \in DOMAIN m THEN m[b] ELSE <<>>
TrippedAt(m, b) == IF b \in DOMAIN m THEN m[b] ELSE None

HCall(op, b, ret) ==
    hlast' = [op |-> op, b |-> b, pre |-> providers, preBr |-> breakers,
              at |-> now, ret |-> ret]

\* ProviderHealthRegistry::new / with_circuit_breakers
InitHealth ==
    /\ now = 0
    /\ config \in HealthBreakerConfigs
    /\ cb = CircuitBreakerStateDefault
    /\ trace = <<>>
    /\ run = 0
    /\ maxRun = 0
    /\ probes = 0
    /\ nops = 0
    /\ breakers = EmptyMap
    /\ hconfig \in HealthConfigs
    /\ linked \in BOOLEAN
    /\ providers = EmptyMap
    /\ pconfig = [default_level |-> "Standard", strict_patterns |-> <<>>]
    /\ compiled = None
    /\ zdr_map = EmptyMap
    /\ violations = <<>>
    /\ pc = "idle"
    /\ rt = RouteIdle
    /\ calls = <<>>
    /\ nsteps = 0
    /\ AuxIdle

HRecordSuccess ==
    \E b \in Backends, latency_ms \in HLatencies :
        /\ hops < MaxHealthOps
        /\ providers' = HealthRecordSuccess(hconfig, providers, b, latency_ms, now)
        /\ breakers' = IF linked THEN RegRecordSuccess(config, breakers, b) ELSE breakers
        /\ HCall("record_success", b, "-")
        /\ succLats' = Put(succLats, b, Append(LatsOf(succLats, b), latency_ms))
        /\ tripped' = Put(tripped, b, None)
        /\ hops' = hops + 1
        /\ UNCHANGED <<now, cbVars, hconfig, linked, privVars, routeVars,
                       mirrorVars, scanVars, extVars>>

HRecordFailure ==
    \E b \in Backends :
        /\ hops < MaxHealthOps
        /\ providers' = HealthRecordFailure(hconfig, providers, b, now)
        /\ breakers' = IF linked THEN RegRecordFailure(config, breakers, b, now)
                       ELSE breakers
        /\ HCall("record_failure", b, "-")
        /\ tripped' = IF EntryOrDefault(providers, b).consecutive_failures + 1
                            >= hconfig.unhealthy_failure_count
                       THEN Put(tripped, b, Some(now))
                       ELSE tripped
        /\ hops' = hops + 1
        /\ UNCHANGED <<now, cbVars, hconfig, linked, privVars, routeVars,
                       succLats, mirrorVars, scanVars, extVars>>

\* CircuitBreakerRegistry::check on the linked registry.
HBreakerCheck ==
    \E b \in Backends :
        /\ hops < MaxHealthOps
        /\ linked
        /\ LET r == RegCheck(config, breakers, b, now)
           IN /\ breakers' = r.breakers
              /\ HCall("check", b, r.decision)
        /\ hops' = hops + 1
        /\ UNCHANGED <<now, cbVars, hconfig, linked, providers, privVars, routeVars,
                       succLats, tripped, mirrorVars, scanVars, extVars>>

\* get_health, is_available, filter_available: each takes the read lock on
\* providers (is_available also the read locks of the breaker registry) and
\* returns GetHealth / IsAvailable / FilterAvailable of the state it finds.
HGetHealth ==
    /\ HCall("get_health", "-", "-")
    /\ UNCHANGED <<now, cbVars, regVars, privVars, routeVars,
                   succLats, tripped, hops, mirrorVars, scanVars, extVars>>

HIsAvailable ==
    /\ HCall("is_available", "-", "-")
    /\ UNCHANGED <<now, cbVars, regVars, privVars, routeVars,
                   succLats, tripped, hops, mirrorVars, scanVars, extVars>>

HFilterAvailable ==
    /\ HCall("filter_available", "-", "-")
    /\ UNCHANGED <<now, cbVars, regVars, privVars, routeVars,
                   succLats, tripped, hops, mirrorVars, scanVars, extVars>>

\* The clock advances between calls; nothing in the registry or the breaker
\* depends on time once cooldown_secs and recovery_timeout_secs have elapsed.
HTick ==
    /\ now < hconfig.cooldown_secs \/ now < config.recovery_timeout_secs
    /\ now' = now + 1
    /\ UNCHANGED <<cbVars, regVars, privVars, routeVars, auxVars>>

NextHealth ==
    \/ HRecordSuccess \/ HRecordFailure \/ HBreakerCheck
    \/ HGetHealth \/ HIsAvailable \/ HFilterAvailable \/ HTick

SpecHealth == InitHealth /\ [][NextHealth]_vars

\* ------------------------- concurrent callers of ProviderHealthRegistry
\* Two threads call record_success / record_failure on one registry.  A call
\* takes the write lock on providers and updates the entry (one step, nobody
\* can look in between), then notifies the linked breaker registry, then
\* returns, which drops the guard.
Threads == {"t1", "t2"}
Outcomes == {"success", "failure"}

\* The lock after the health update: `providers` (the write guard) lives to
\* the end of record_success / record_failure, so the caller still holds it.
LockAfterHealthUpdate_Released(t) == None

LockAfterHealthUpdate(t) == Some(t)

LogOf(m, b) == IF b \in DOMAIN m THEN m[b] ELSE <<>>
RECURSIVE SumLens(_, _)
SumLens(m, D) ==
    IF D = {} THEN 0
    ELSE LET b == CHOOSE x \in D : TRUE
         IN Len(m[b]) + SumLens(m, D \ {b})

InitMirror ==
    /\ now = 0
    /\ config \in HealthBreakerConfigs
    /\ cb = CircuitBreakerStateDefault
    /\ trace = <<>>
    /\ run = 0
    /\ maxRun = 0
    /\ probes = 0
    /\ nops = 0
    /\ breakers = EmptyMap
    /\ hconfig \in HealthConfigs
    /\ linked \in BOOLEAN
    /\ providers = EmptyMap
    /\ pconfig = [default_level |-> "Standard", strict_patterns |-> <<>>]
    /\ compiled = None
    /\ zdr_map = EmptyMap
    /\ violations = <<>>
    /\ pc = "idle"
    /\ rt = RouteIdle
    /\ calls = <<>>
    /\ nsteps = 0
    /\ hlast = [op |-> "none"]
    /\ succLats = EmptyMap
    /\ tripped = EmptyMap
    /\ hops = 0
    /\ threads = [t \in Threads |-> [pc |-> "idle"]]
    /\ plock = None
    /\ hlog = EmptyMap
    /\ blog = EmptyMap
    /\ scanners = EmptyMap
    /\ lastScan = [scanner |-> "none"]
    /\ nscans = 0
    /\ ExtIdle

\* self.providers.write() and the update of the entry.
MUpdateHealth ==
    \E t \in Threads, b \in Backends, o \in Outcomes :
        /\ SumLens(hlog, DOMAIN hlog) < MaxRecords
        /\ threads[t].pc = "idle"
        /\ plock = None
        /\ providers' = IF o = "success"
                        THEN HealthRecordSuccess(hconfig, providers, b, 1, now)
                        ELSE HealthRecordFailure(hconfig, providers, b, now)
        /\ hlog' = Put(hlog, b, Append(LogOf(hlog, b), [t |-> t, o |-> o]))
        /\ plock' = LockAfterHealthUpdate(t)
        /\ threads' = [threads EXCEPT ![t] = [pc |-> "notify", b |-> b, o |-> o]]
        /\ UNCHANGED <<now, cbVars, breakers, hconfig, linked, privVars, routeVars,
                       healthHist, blog, scanVars, extVars>>

\* if let Some(ref cb) = self.circuit_breakers { cb.record_*(backend) }, then
\* the return.
MNotifyBreaker ==
    \E t \in Threads :
        /\ threads[t].pc = "notify"
        /\ LET b == threads[t].b
               o == threads[t].o
           IN IF linked
              THEN /\ breakers' = IF o = "success"
                                  THEN RegRecordSuccess(config, breakers, b)
                                  ELSE RegRecordFailure(config, breakers, b, now)
                   /\ blog' = Put(blog, b, Append(LogOf(blog, b), [t |-> t, o |-> o]))
              ELSE UNCHANGED <<breakers, blog>>
        /\ plock' = IF plock = Some(t) THEN None ELSE plock
        /\ threads' = [threads EXCEPT ![t] = [pc |-> "idle"]]
        /\ UNCHANGED <<now, cbVars, hconfig, linked, providers, privVars, routeVars,
                       healthHist, hlog, scanVars, extVars>>

NextMirror == MUpdateHealth \/ MNotifyBreaker \/ HTick

SpecMirror == InitMirror /\ [][NextMirror]_vars

\* ------------------------------ get_status beside the recording threads
\* A third thread calls get_status while the threads of SpecMirror record
\* outcomes and the breaker registry is checked.  get_status is get_health
\* (read lock on providers), then stats on the breaker registry, then
\* is_available, which is is_open on the breaker registry and then a second
\* read lock on providers.  A read lock is granted while no recorder holds the
\* write guard.
StatusFrame ==
    UNCHANGED <<now, cbVars, regVars, privVars, routeVars, healthHist, mirrorVars,
                scanVars, onceVars, auditVars, chatVars, validVars, getVars, lockVars>>

\* get_status(b) is called.
GSBegin ==
    \E b \in Backends :
        /\ sreader.pc \in {"idle", "returned"}
        /\ sops < MaxStatusOps
        /\ sops' = sops + 1
        /\ sreader' = [pc |-> "health", b |-> b, providers0 |-> EntryOf(providers, b),
                        breakers0 |-> EntryOf(breakers, b)]
        /\ StatusFrame

\* let health = self.get_health(backend)
GSGetHealth ==
    /\ sreader.pc = "health"
    /\ plock = None
    /\ sreader' = [pc |-> "stats", b |-> sreader.b, providers0 |-> sreader.providers0,
                    breakers0 |-> sreader.breakers0,
                    health |-> GetHealth(hconfig, providers, sreader.b, now)]
    /\ UNCHANGED sops
    /\ StatusFrame

\* cb.stats(backend).map(|s| s.state).unwrap_or(Closed)
StatsState(lnk, brs, b) ==
    IF lnk /\ b \in DOMAIN brs THEN brs[b].state ELSE "Closed"

GSStats ==
    /\ sreader.pc = "stats"
    /\ sreader' = [pc |-> "is_open", b |-> sreader.b, providers0 |-> sreader.providers0,
                    breakers0 |-> sreader.breakers0, health |-> sreader.health,
                    circuit_state |-> StatsState(linked, breakers, sreader.b)]
    /\ UNCHANGED sops
    /\ StatusFrame

\* The status returned, with the note whether the backend's entry and breaker
\* are what they were when get_status was called.
StatusReturned(r, available) ==
    [pc |-> "returned", b |-> r.b, health |-> r.health,
     circuit_state |-> r.circuit_state, available |-> available,
     undisturbed |-> (EntryOf(providers, r.b) = r.providers0
                          /\ EntryOf(breakers, r.b) = r.breakers0)]

\* is_available: if cb.is_open(backend) { return false }
GSIsOpen ==
    /\ sreader.pc = "is_open"
    /\ sreader' = IF linked /\ IsOpen(breakers, sreader.b)
                   THEN StatusReturned(sreader, FALSE)
                   ELSE [sreader EXCEPT !.pc = "entry"]
    /\ UNCHANGED sops
    /\ StatusFrame

\* is_available: the entry under the read lock, and the return of get_status.
GSEntry ==
    /\ sreader.pc = "entry"
    /\ plock = None
    /\ sreader' = StatusReturned(sreader,
                       IsAvailable(hconfig, providers, FALSE, breakers, sreader.b, now))
    /\ UNCHANGED sops
    /\ StatusFrame

\* Another caller checks the breaker of a backend.
GSBreakerCheck ==
    \E b \in Backends :
        /\ linked
        /\ sops < MaxStatusOps
        /\ sops' = sops + 1
        /\ breakers' = RegCheck(config, breakers, b, now).breakers
        /\ UNCHANGED <<now, cbVars, hconfig, linked, providers, privVars, routeVars,
                       healthHist, mirrorVars, scanVars, onceVars, auditVars, chatVars,
                       validVars, getVars, lockVars, sreader>>

NextStatus ==
    \/ MUpdateHealth \/ MNotifyBreaker \/ HTick
    \/ GSBegin \/ GSGetHealth \/ GSStats \/ GSIsOpen \/ GSEntry \/ GSBreakerCheck

\* Both registries new, nobody inside a call.
InitStatus ==
    /\ InitMirror
    /\ hconfig.unhealthy_failure_count >= 1
    /\ hconfig.latency_window = 1

SpecStatus == InitStatus /\ [][NextStatus]_vars

\* ------------------------------------------ the locks of both registries
\* One backend, a health registry with a breaker registry attached, and three
\* read-write locks: "providers" (ProviderHealthRegistry.providers),
\* "breakers" (CircuitBreakerRegistry.breakers) and "state" (the breaker's
\* CircuitBreaker.state).  A call is the sequence of its lock steps; what a
\* call does with the data is left out, but for whether the backend has an
\* entry and a breaker, which decides the steps.  The locks prefer writers: a
\* read lock is granted when there is neither a writer nor a thread waiting
\* to write; a write lock when there is neither a writer nor a reader.
LockNames == {"providers", "breakers", "state"}

I(k, l) == [k |-> k, l |-> l]

\* lock.read() ... drop
ReadSteps(l) == <<I("acqR", l), I("relR", l)>>
\* lock.write(): the thread first waits, then holds.
WriteSteps(l) == <<I("reqW", l), I("acqW", l)>>

\* CircuitBreakerRegistry::get, then the breaker's write lock (check,
\* record_success, record_failure).
BreakerWriteProg ==
    <<I("acqR", "breakers"), I("lookup", "breakers")>>
        \o WriteSteps("state") \o <<I("relW", "state")>>

\* stats / is_open: breakers.read(), and the breaker's read lock inside it.
BreakerReadProg ==
    <<I("acqR", "breakers"), I("peek", "breakers"), I("relR", "breakers")>>

RecordProg ==
    WriteSteps("providers") \o <<I("put", "providers")>>
        \o BreakerWriteProg \o <<I("relW", "providers")>>

IsAvailableProg == BreakerReadProg \o ReadSteps("providers")

LockProg(op) ==
    CASE op \in {"record_success", "record_failure"} -> RecordProg
      [] op \in {"get_health", "get_health_info"} -> ReadSteps("providers")
      [] op = "all_health_info" ->
            <<I("acqR", "providers"), I("keys", "providers"), I("relR", "providers")>>
      [] op = "is_available" -> IsAvailableProg
      [] op = "get_status" ->
            ReadSteps("providers") \o BreakerReadProg \o IsAvailableProg
      [] op = "check" -> BreakerWriteProg
      [] op = "stats" -> BreakerReadProg

LockOps ==
    {"record_success", "record_failure", "get_health", "get_health_info",
     "all_health_info", "is_available", "get_status", "check", "stats"}

\* The steps a data-dependent step stands for, given the maps.
Expand(ins, maps) ==
    CASE ins.k = "keys" ->
            \* providers.keys().map(|k| self.get_health_info(k))
            IF maps.providers THEN ReadSteps("providers") ELSE <<>>
      [] ins.k = "lookup" ->
            \* get: hit under the read lock, or drop, write lock and insert
            IF maps.breakers THEN <<I("relR", "breakers")>>
            ELSE <<I("relR", "breakers")>> \o WriteSteps("breakers")
                     \o <<I("put", "breakers"), I("relW", "breakers")>>
      [] ins.k = "peek" ->
            \* breakers.get(backend).map(|cb| cb.stats() / cb.state())
            IF maps.breakers THEN ReadSteps("state") ELSE <<>>
      [] OTHER -> <<>>

NoReaders(lk) == \A t \in DOMAIN lk.readers : lk.readers[t] = 0

\* Whether the lock step can be taken now.
Granted(ins, lk) ==
    CASE ins.k = "acqR" -> lk.writer = None /\ lk.pending = {}
      [] ins.k = "acqW" -> lk.writer = None /\ NoReaders(lk)
      [] OTHER -> TRUE

\* The lock after thread t has taken the step.
LockAfter(ins, lk, t) ==
    CASE ins.k = "acqR" -> [lk EXCEPT !.readers[t] = @ + 1]
      [] ins.k = "relR" -> [lk EXCEPT !.readers[t] = @ - 1]
      [] ins.k = "reqW" -> [lk EXCEPT !.pending = @ \cup {t}]
      [] ins.k = "acqW" -> [lk EXCEPT !.writer = Some(t), !.pending = @ \ {t}]
      [] ins.k = "relW" -> [lk EXCEPT !.writer = None]
      [] OTHER -> lk

InitLock ==
    /\ now = 0
    /\ config = [failure_threshold |-> 1, recovery_timeout_secs |-> 1,
                 half_open_probes |-> 1, enabled |-> TRUE]
    /\ cb = CircuitBreakerStateDefault
    /\ trace = <<>>
    /\ run = 0
    /\ maxRun = 0
    /\ probes = 0
    /\ nops = 0
    /\ RegistriesIdle
    /\ hlast = [op |-> "none"]
    /\ succLats = EmptyMap
    /\ tripped = EmptyMap
    /\ hops = 0
    /\ threads = EmptyMap
    /\ plock = None
    /\ hlog = EmptyMap
    /\ blog = EmptyMap
    /\ scanners = EmptyMap
    /\ lastScan = [scanner |-> "none"]
    /\ nscans = 0
    /\ OnceIdle
    /\ AuditIdle
    /\ ChatIdle
    /\ JitterIdle
    /\ ValidIdle
    /\ GetIdle
    /\ StatusIdle
    /\ locks = [l \in LockNames |->
                   [readers |-> [t \in Threads |-> 0], writer |-> None, pending |-> {}]]
    /\ lthreads = [t \in Threads |-> [op |-> "none", prog |-> <<>>]]
    /\ lmaps = [providers |-> FALSE, breakers |-> FALSE]
    /\ lcalls = 0

LockFrame ==
    UNCHANGED <<now, cbVars, regVars, privVars, routeVars, healthHist, mirrorVars,
                scanVars, onceVars, auditVars, chatVars, validVars, getVars, statusVars>>

\* A thread that is in no call calls an operation.
LCall ==
    \E t \in Threads, op \in LockOps :
        /\ lthreads[t].prog = <<>>
        /\ lcalls < MaxLockCalls
        /\ lcalls' = lcalls + 1
        /\ lthreads' = [lthreads EXCEPT ![t] = [op |-> op, prog |-> LockProg(op)]]
        /\ UNCHANGED <<locks, lmaps>>
        /\ LockFrame

\* A thread takes the next step of its call: acquires a lock that can be
\* granted, starts waiting for a write lock, releases, inserts, or looks at a
\* map it holds the lock of.
LStep ==
    \E t \in Threads :
        /\ lthreads[t].prog # <<>>
        /\ LET ins == Head(lthreads[t].prog)
           IN  /\ Granted(ins, locks[ins.l])
               /\ locks' = [locks EXCEPT ![ins.l] = LockAfter(ins, locks[ins.l], t)]
               /\ lmaps' = IF ins.k = "put" THEN [lmaps EXCEPT ![ins.l] = TRUE] ELSE lmaps
               /\ lthreads' = [lthreads EXCEPT ![t].prog =
                                   Expand(ins, lmaps) \o Tail(lthreads[t].prog)]
        /\ UNCHANGED lcalls
        /\ LockFrame

NextLock == LCall \/ LStep

SpecLock == InitLock /\ [][NextLock]_vars

\* ------------------------------------- several scanners in one process
\* Each PrivacyScanner has its own config; COMPILED_PATTERNS is one static
\* cell for the process.
Scanners == {"s1", "s2"}

PatternLists == { << <<"k">> >>, << <<"x">> >>, << <<"(">>, <<"x", "k">> >> }

ScanConfigs == [default_level : PrivacyLevels, strict_patterns : PatternLists]

ScanPrompts == {<<"x">>, <<"K">>, <<"x", "K">>}

InitScan ==
    /\ now = 0
    /\ config = [failure_threshold |-> 1, recovery_timeout_secs |-> 1,
                 half_open_probes |-> 1, enabled |-> TRUE]
    /\ cb = CircuitBreakerStateDefault
    /\ trace = <<>>
    /\ run = 0
    /\ maxRun = 0
    /\ probes = 0
    /\ nops = 0
    /\ RegistriesIdle
    /\ hlast = [op |-> "none"]
    /\ succLats = EmptyMap
    /\ tripped = EmptyMap
    /\ hops = 0
    /\ threads = EmptyMap
    /\ plock = None
    /\ hlog = EmptyMap
    /\ blog = EmptyMap
    /\ scanners \in [Scanners -> ScanConfigs]
    /\ lastScan = [scanner |-> "none"]
    /\ nscans = 0
    /\ ExtIdle

\* PrivacyScanner::scan called on scanner s.
DoScan ==
    \E s \in Scanners, prompt \in ScanPrompts :
        /\ nscans < MaxScans
        /\ compiled' = GetCompiledPatterns(compiled, scanners[s])
        /\ lastScan' = [scanner |-> s,
                        prompt |-> prompt,
                        result |-> Scan(scanners[s], Unwrap(compiled'), prompt),
                        first |-> IF lastScan.scanner = "none" THEN s
                                  ELSE lastScan.first]
        /\ nscans' = nscans + 1
        /\ UNCHANGED <<now, cbVars, regVars, pconfig, zdr_map, violations,
                       routeVars, healthHist, mirrorVars, scanners, extVars>>

NextScan == DoScan

SpecScan == InitScan /\ [][NextScan]_vars

\* ------------------------------- concurrent scans, one COMPILED_PATTERNS
\* Two threads scan, each on any scanner.  scan is get_compiled_patterns
\* (OnceLock::get_or_init: return the value if the cell is set; else, if no
\* thread is running an initialiser, run the closure and set the cell; else
\* wait for the running one), then find_matches and the result.
OnceConfigs == [default_level : {"Standard", "Strict"}, strict_patterns : PatternLists]

\* Mutant of OnceMayInit: a thread that finds the cell empty runs the
\* initialiser whether or not another thread is running one.
OnceMayInit_Unsynchronised(cell, running) == cell = None

\* OnceLock::get_or_init: the caller runs the closure.
OnceMayInit(cell, running) == cell = None /\ running = None

InitOnce ==
    /\ now = 0
    /\ config = [failure_threshold |-> 1, recovery_timeout_secs |-> 1,
                 half_open_probes |-> 1, enabled |-> TRUE]
    /\ cb = CircuitBreakerStateDefault
    /\ trace = <<>>
    /\ run = 0
    /\ maxRun = 0
    /\ probes = 0
    /\ nops = 0
    /\ RegistriesIdle
    /\ hlast = [op |-> "none"]
    /\ succLats = EmptyMap
    /\ tripped = EmptyMap
    /\ hops = 0
    /\ threads = EmptyMap
    /\ plock = None
    /\ hlog = EmptyMap
    /\ blog = EmptyMap
    /\ scanners \in [Scanners -> OnceConfigs]
    /\ lastScan = [scanner |-> "none"]
    /\ nscans = 0
    /\ sthreads = [t \in Threads |-> [pc |-> "idle"]]
    /\ initing = None
    /\ initLog = <<>>
    /\ LaterIdle

\* A thread calls scan(prompt) on scanner s.  raced: the cell was empty and
\* the other thread was already inside a scan.
SBegin ==
    \E t \in Threads, s \in Scanners, prompt \in ScanPrompts :
        /\ nscans < MaxScans
        /\ sthreads[t].pc = "idle"
        /\ sthreads' = [sthreads EXCEPT ![t] =
              [pc |-> "get", s |-> s, prompt |-> prompt,
               raced |-> compiled = None
                         /\ \E u \in Threads \ {t} : sthreads[u].pc # "idle"]]
        /\ nscans' = nscans + 1
        /\ UNCHANGED <<now, cbVars, regVars, privVars, routeVars, healthHist,
                       mirrorVars, scanners, lastScan, initing, initLog, laterVars>>

\* get_or_init: the cell is set, or the caller starts the initialiser.
SGetOrInit ==
    \E t \in Threads :
        /\ sthreads[t].pc = "get"
        /\ \/ /\ IsSome(compiled)
              /\ sthreads' = [sthreads EXCEPT ![t].pc = "match"]
              /\ UNCHANGED <<initing, initLog>>
           \/ /\ OnceMayInit(compiled, initing)
              /\ initing' = Some(t)
              /\ initLog' = Append(initLog, sthreads[t].s)
              /\ sthreads' = [sthreads EXCEPT ![t].pc = "init"]
        /\ UNCHANGED <<now, cbVars, regVars, privVars, routeVars, healthHist,
                       mirrorVars, scanVars, laterVars>>

\* The closure returns CompiledPatterns::new(&config.strict_patterns) and
\* the cell is set.
SInitDone ==
    \E t \in Threads :
        /\ sthreads[t].pc = "init"
        /\ compiled' = Some(CompiledPatternsNew(scanners[sthreads[t].s].strict_patterns))
        /\ initing' = IF initing = Some(t) THEN None ELSE initing
        /\ sthreads' = [sthreads EXCEPT ![t].pc = "match"]
        /\ UNCHANGED <<now, cbVars, regVars, pconfig, zdr_map, violations,
                       routeVars, healthHist, mirrorVars, scanVars, initLog, laterVars>>

\* find_matches on the patterns obtained, and the result.
SMatch ==
    \E t \in Threads :
        /\ sthreads[t].pc = "match"
        /\ lastScan' = [scanner |-> sthreads[t].s,
                        prompt |-> sthreads[t].prompt,
                        result |-> Scan(scanners[sthreads[t].s], Unwrap(compiled),
                                        sthreads[t].prompt),
                        first |-> initLog[1],
                        raced |-> sthreads[t].raced]
        /\ sthreads' = [sthreads EXCEPT ![t] = [pc |-> "idle"]]
        /\ UNCHANGED <<now, cbVars, regVars, privVars, routeVars, healthHist,
                       mirrorVars, scanners, nscans, initing, initLog, laterVars>>

NextOnce == SBegin \/ SGetOrInit \/ SInitDone \/ SMatch

SpecOnce == InitOnce /\ [][NextOnce]_vars

\* ------------------------------- ZDR filter and audit log, called directly
\* PrivacyAuditLog::recent
Recent(log, n) ==
    IF Len(log) <= n THEN log ELSE SubSeq(log, Len(log) - n + 1, Len(log))

MatchedLists == {<< <<"k">> >>}

InitPrivacy ==
    /\ now = 0
    /\ config = [failure_threshold |-> 1, recovery_timeout_secs |-> 1,
                 half_open_probes |-> 1, enabled |-> TRUE]
    /\ cb = CircuitBreakerStateDefault
    /\ trace = <<>>
    /\ run = 0
    /\ maxRun = 0
    /\ probes = 0
    /\ nops = 0
    /\ RegistriesIdle
    /\ AuxIdle

\* filter_zdr_backends(backends, backend_zdr_map, require_zdr)
PFilterZdr ==
    \E xs \in SeqsUpTo(Backends, MaxCands), m \in ZdrMaps, require_zdr \in BOOLEAN :
        /\ plast' = [op |-> "filter_zdr_backends", xs |-> xs, m |-> m,
                     require_zdr |-> require_zdr,
                     ret |-> FilterZdrBackends(xs, m, require_zdr),
                     pre |-> violations]
        /\ UNCHANGED <<now, cbVars, regVars, privVars, routeVars, healthHist,
                       mirrorVars, scanVars, onceVars, chatVars, moreVars>>

\* PrivacyAuditLog::record_violation
PRecordViolation ==
    \E level \in PrivacyLevels, b \in Backends, has_zdr \in BOOLEAN,
       pats \in MatchedLists :
        /\ Len(violations) < MaxLog
        /\ violations' = RecordViolation(violations, level, b, has_zdr, pats)
        /\ plast' = [op |-> "record_violation", level |-> level, backend |-> b,
                     has_zdr |-> has_zdr, patterns |-> pats, pre |-> violations]
        /\ UNCHANGED <<now, cbVars, regVars, pconfig, compiled, zdr_map,
                       routeVars, healthHist, mirrorVars, scanVars, onceVars, chatVars, moreVars>>

\* PrivacyAuditLog::recent
PRecent ==
    \E n \in 0..(MaxLog + 1) :
        /\ plast' = [op |-> "recent", n |-> n, ret |-> Recent(violations, n),
                     pre |-> violations]
        /\ UNCHANGED <<now, cbVars, regVars, privVars, routeVars, healthHist,
                       mirrorVars, scanVars, onceVars, chatVars, moreVars>>

NextPrivacy == PFilterZdr \/ PRecordViolation \/ PRecent

SpecPrivacy == InitPrivacy /\ [][NextPrivacy]_vars

\* --------------------- concurrent callers of CircuitBreakerRegistry::get
\* The map holds Arcs: arcs[b] is the position in heap of the CircuitBreaker
\* that the name b maps to.  A call is get(b) followed by the operation on the
\* breaker it returned; the lookup under the read lock, the insertion under
\* the write lock and the operation under the breaker's own lock are each one
\* step.
GetOps == {"get", "check", "record_success", "record_failure"}

\* The registry's configuration, enabled or disabled.
GetConfigs ==
    [failure_threshold : {2}, recovery_timeout_secs : {1},
     half_open_probes : {1}, enabled : BOOLEAN]

\* Mutant of GetInsert: no second lookup under the write lock.
GetInsert_NoDoubleCheck(map, hp, b) ==
    [arcs |-> Put(map, b, Len(hp) + 1),
     heap |-> Append(hp, [name |-> b, st |-> CircuitBreakerStateDefault]),
     inst |-> Len(hp) + 1,
     found |-> FALSE]

\* CircuitBreakerRegistry::get under the write lock: look again, and insert a
\* new breaker only if the name is still absent.
GetInsert(map, hp, b) ==
    IF b \in DOMAIN map
    THEN [arcs |-> map, heap |-> hp, inst |-> map[b], found |-> TRUE]
    ELSE [arcs |-> Put(map, b, Len(hp) + 1),
          heap |-> Append(hp, [name |-> b, st |-> CircuitBreakerStateDefault]),
          inst |-> Len(hp) + 1,
          found |-> FALSE]

DoneOf(m, b) == IF b \in DOMAIN m THEN m[b] ELSE 0

\* CircuitBreakerRegistry::new, no caller inside.
InitGet ==
    /\ now = 0
    /\ config \in GetConfigs
    /\ cb = CircuitBreakerStateDefault
    /\ trace = <<>>
    /\ run = 0
    /\ maxRun = 0
    /\ probes = 0
    /\ nops = 0
    /\ RegistriesIdle
    /\ hlast = [op |-> "none"]
    /\ succLats = EmptyMap
    /\ tripped = EmptyMap
    /\ hops = 0
    /\ threads = EmptyMap
    /\ plock = None
    /\ hlog = EmptyMap
    /\ blog = EmptyMap
    /\ scanners = EmptyMap
    /\ lastScan = [scanner |-> "none"]
    /\ nscans = 0
    /\ OnceIdle
    /\ AuditIdle
    /\ ChatIdle
    /\ JitterIdle
    /\ ValidIdle
    /\ StatusIdle
    /\ LockIdle
    /\ arcs = EmptyMap
    /\ heap = <<>>
    /\ gthreads = [t \in Threads |-> [pc |-> "idle", b |-> "none", op |-> "none",
                                       held |-> 0, raced |-> FALSE]]
    /\ gdone = EmptyMap
    /\ gcount = 0

GetFrame ==
    UNCHANGED <<now, cbVars, regVars, privVars, routeVars, healthHist, mirrorVars,
                scanVars, onceVars, auditVars, chatVars, validVars, statusVars,
                lockVars>>

\* A thread calls get, check, record_success or record_failure for a backend.
GBegin ==
    \E t \in Threads, b \in Backends, op \in GetOps :
        /\ gthreads[t].pc = "idle"
        /\ gcount < MaxGetCalls
        /\ gcount' = gcount + 1
        /\ gthreads' = [gthreads EXCEPT ![t] = [pc |-> "lookup", b |-> b, op |-> op,
                                                 held |-> 0, raced |-> FALSE]]
        /\ UNCHANGED <<arcs, heap, gdone>>
        /\ GetFrame

\* get: the lookup under the read lock; the guard is dropped on a miss.
GLookup ==
    \E t \in Threads :
        /\ gthreads[t].pc = "lookup"
        /\ gthreads' = [gthreads EXCEPT ![t] =
                IF gthreads[t].b \in DOMAIN arcs
                THEN [gthreads[t] EXCEPT !.pc = "op", !.held = arcs[gthreads[t].b]]
                ELSE [gthreads[t] EXCEPT !.pc = "insert"]]
        /\ UNCHANGED <<arcs, heap, gdone, gcount>>
        /\ GetFrame

\* get: the write lock, the second lookup and the insertion.
GInsert ==
    \E t \in Threads :
        /\ gthreads[t].pc = "insert"
        /\ LET r == GetInsert(arcs, heap, gthreads[t].b)
           IN  /\ arcs' = r.arcs
               /\ heap' = r.heap
               /\ gthreads' = [gthreads EXCEPT ![t] =
                       [gthreads[t] EXCEPT !.pc = "op", !.held = r.inst,
                                           !.raced = r.found]]
        /\ UNCHANGED <<gdone, gcount>>
        /\ GetFrame

\* The operation on the breaker that get returned, under the breaker's lock.
GOp ==
    \E t \in Threads :
        /\ gthreads[t].pc = "op"
        /\ LET i == gthreads[t].held
               op == gthreads[t].op
               st == heap[i].st
               st1 == IF op = "check" THEN CbCheck(config, st, now).st
                      ELSE IF op = "record_success" THEN CbRecordSuccess(config, st)
                      ELSE IF op = "record_failure" THEN CbRecordFailure(config, st, now)
                      ELSE st
           IN  /\ heap' = [heap EXCEPT ![i].st = st1]
               /\ gdone' = IF op \in {"record_success", "record_failure"}
                            THEN Put(gdone, gthreads[t].b, DoneOf(gdone, gthreads[t].b) + 1)
                            ELSE gdone
        /\ gthreads' = [gthreads EXCEPT ![t].pc = "idle"]
        /\ UNCHANGED <<arcs, gcount>>
        /\ GetFrame

NextGet == GBegin \/ GLookup \/ GInsert \/ GOp

SpecGet == InitGet /\ [][NextGet]_vars

\* ------------------- ProviderHealthRegistry built from any HealthConfig
\* HealthConfig as new takes it: every value of the field types, zero included.
AnyHealthConfigs ==
    [degraded_latency_ms : {2},
     degraded_failure_count : {1},
     unhealthy_failure_count : {1, 2},
     cooldown_secs : {1},
     latency_window : {0, 1, 2}]

\* add_latency panics: the window is not below window_size and the index is
\* taken modulo window_size = 0.
AddLatencyPanics(st, window_size) ==
    ~(Len(st.recent_latencies) < window_size) /\ window_size = 0

\* record_success up to the call of add_latency.
HealthRecordSuccessBegun(provs, b, t) ==
    LET s0 == EntryOrDefault(provs, b)
    IN  Put(provs, b, [s0 EXCEPT !.total_requests = @ + 1,
                                 !.successful_requests = @ + 1,
                                 !.consecutive_successes = @ + 1,
                                 !.consecutive_failures = 0,
                                 !.last_success = Some(t)])

\* ProviderHealthRegistry::new: the configuration is stored as it comes.
InitConfig ==
    /\ now = 0
    /\ config = [failure_threshold |-> 1, recovery_timeout_secs |-> 1,
                 half_open_probes |-> 1, enabled |-> TRUE]
    /\ cb = CircuitBreakerStateDefault
    /\ trace = <<>>
    /\ run = 0
    /\ maxRun = 0
    /\ probes = 0
    /\ nops = 0
    /\ breakers = EmptyMap
    /\ hconfig \in AnyHealthConfigs
    /\ linked = FALSE
    /\ providers = EmptyMap
    /\ pconfig = [default_level |-> "Standard", strict_patterns |-> <<>>]
    /\ compiled = None
    /\ zdr_map = EmptyMap
    /\ violations = <<>>
    /\ pc = "idle"
    /\ rt = RouteIdle
    /\ calls = <<>>
    /\ nsteps = 0
    /\ hlast = [op |-> "none"]
    /\ succLats = EmptyMap
    /\ tripped = EmptyMap
    /\ hops = 0
    /\ threads = EmptyMap
    /\ plock = None
    /\ hlog = EmptyMap
    /\ blog = EmptyMap
    /\ scanners = EmptyMap
    /\ lastScan = [scanner |-> "none"]
    /\ nscans = 0
    /\ OnceIdle
    /\ AuditIdle
    /\ ChatIdle
    /\ JitterIdle
    /\ poisoned = FALSE
    /\ vlast = [op |-> "new", outcome |-> "returned"]
    /\ vops = 0
    /\ GetIdle
    /\ StatusIdle
    /\ LockIdle

\* lock.write().unwrap() / lock.read().unwrap() on the poisoned lock panics.
VPoisoned(op, b) ==
    /\ poisoned
    /\ vlast' = [op |-> op, b |-> b, outcome |-> "panicked"]
    /\ UNCHANGED <<providers, poisoned>>

\* record_success: a panic of add_latency unwinds through the write guard,
\* which poisons the lock and leaves the entry as far as it was written.
VRecordSuccess ==
    \E b \in Backends, latency_ms \in HLatencies :
        /\ vops < MaxConfigOps
        /\ vops' = vops + 1
        /\ \/ VPoisoned("record_success", b)
           \/ /\ ~poisoned
              /\ IF AddLatencyPanics(EntryOrDefault(providers, b), hconfig.latency_window)
                 THEN /\ providers' = HealthRecordSuccessBegun(providers, b, now)
                      /\ poisoned' = TRUE
                      /\ vlast' = [op |-> "record_success", b |-> b,
                                   outcome |-> "panicked"]
                 ELSE /\ providers' = HealthRecordSuccess(hconfig, providers, b,
                                                          latency_ms, now)
                      /\ poisoned' = FALSE
                      /\ vlast' = [op |-> "record_success", b |-> b,
                                   outcome |-> "returned"]
        /\ UNCHANGED <<now, cbVars, breakers, hconfig, linked, privVars, routeVars,
                       healthHist, mirrorVars, scanVars, onceVars, auditVars,
                       chatVars, getVars, statusVars, lockVars>>

VRecordFailure ==
    \E b \in Backends :
        /\ vops < MaxConfigOps
        /\ vops' = vops + 1
        /\ \/ VPoisoned("record_failure", b)
           \/ /\ ~poisoned
              /\ providers' = HealthRecordFailure(hconfig, providers, b, now)
              /\ poisoned' = FALSE
              /\ vlast' = [op |-> "record_failure", b |-> b, outcome |-> "returned"]
        /\ UNCHANGED <<now, cbVars, breakers, hconfig, linked, privVars, routeVars,
                       healthHist, mirrorVars, scanVars, onceVars, auditVars,
                       chatVars, getVars, statusVars, lockVars>>

VGetHealth ==
    \E b \in Backends :
        /\ \/ VPoisoned("get_health", b)
           \/ /\ ~poisoned
              /\ vlast' = [op |-> "get_health", b |-> b, outcome |-> "returned",
                           ret |-> GetHealth(hconfig, providers, b, now)]
              /\ UNCHANGED <<providers, poisoned>>
        /\ UNCHANGED <<now, cbVars, breakers, hconfig, linked, privVars, routeVars,
                       healthHist, mirrorVars, scanVars, onceVars, auditVars,
                       chatVars, vops, getVars, statusVars, lockVars>>

VIsAvailable ==
    \E b \in Backends :
        /\ \/ VPoisoned("is_available", b)
           \/ /\ ~poisoned
              /\ vlast' = [op |-> "is_available", b |-> b, outcome |-> "returned",
                           ret |-> IsAvailable(hconfig, providers, linked, breakers,
                                               b, now)]
              /\ UNCHANGED <<providers, poisoned>>
        /\ UNCHANGED <<now, cbVars, breakers, hconfig, linked, privVars, routeVars,
                       healthHist, mirrorVars, scanVars, onceVars, auditVars,
                       chatVars, vops, getVars, statusVars, lockVars>>

NextConfig == VRecordSuccess \/ VRecordFailure \/ VGetHealth \/ VIsAvailable

SpecConfig == InitConfig /\ [][NextConfig]_vars

\* ------------------------------------------------------------------ llm.rs
MAX_RETRIES == 5
INITIAL_BACKOFF_MS == 1000
MAX_BACKOFF_MS == 60000
\* JITTER_FACTOR = 0.3, in thousandths.
JITTER_FACTOR_PERMILLE == 300

\* u64 arithmetic is modelled on a narrower machine word, wide enough for
\* every backoff value: the numbers a word holds are 0 .. WordModulus - 1.
WordModulus == 1048576

\* is_retryable_status
IsRetryableStatus(code) == code = 429 \/ (500 <= code /\ code < 600)

\* StatusCode::is_success
IsSuccess(code) == 200 <= code /\ code < 300

\* jittered_backoff(base_ms); the value drawn by gen_range(0.0..JITTER_FACTOR)
\* is draw / 1000 with draw in 0 .. JITTER_FACTOR_PERMILLE - 1, and the cast
\* to u64 truncates.
JitteredBackoff_Uncapped(base_ms, draw) == base_ms + ((draw * base_ms) \div 1000)

JitteredBackoff(base_ms, draw) ==
    LET jittered == base_ms + ((draw * base_ms) \div 1000)
    IN  IF jittered <= MAX_BACKOFF_MS THEN jittered ELSE MAX_BACKOFF_MS

\* backoff_ms = (backoff_ms * 2).min(MAX_BACKOFF_MS)
NextBackoff_AddsInitial(backoff_ms) ==
    IF backoff_ms + INITIAL_BACKOFF_MS <= MAX_BACKOFF_MS
    THEN backoff_ms + INITIAL_BACKOFF_MS ELSE MAX_BACKOFF_MS

NextBackoff(backoff_ms) ==
    IF backoff_ms * 2 <= MAX_BACKOFF_MS THEN backoff_ms * 2 ELSE MAX_BACKOFF_MS

Digits == <<"0", "1", "2", "3", "4", "5", "6", "7", "8", "9">>

IsDigit(c) == \E i \in 1..10 : Digits[i] = c

DigitVal(c) == (CHOOSE i \in 1..10 : Digits[i] = c) - 1

\* str::parse::<u64>: Some(n) for a non-empty string of digits (after an
\* optional "+") whose value fits the word, None otherwise.
RECURSIVE ParseDigits(_, _)
ParseDigits(s, acc) ==
    IF s = <<>> THEN Some(acc)
    ELSE IF ~IsDigit(Head(s)) THEN None
    ELSE LET n == acc * 10 + DigitVal(Head(s))
         IN  IF n >= WordModulus THEN None ELSE ParseDigits(Tail(s), n)

ParseU64(s) ==
    LET digits == IF s # <<>> /\ Head(s) = "+" THEN Tail(s) ELSE s
    IN  IF digits = <<>> THEN None ELSE ParseDigits(digits, 0)

\* The Retry-After header of a response: absent, or its text.
RetryAfterHeaders ==
    { None, Some(<<"0">>), Some(<<"6", "0">>), Some(<<"6", "1">>),
      Some(<<"1", "0", "4", "9">>), Some(<<"-", "1">>),
      Some(<<"T", "u", "e">>), Some(<<"9", "9", "9", "9", "9", "9", "9">>) }

\* headers().get("Retry-After") ... .and_then(|s| s.parse::<u64>().ok())
RetryAfterSecs(header) == IF IsSome(header) THEN ParseU64(Unwrap(header)) ELSE None

\* s * 1000 on the machine word overflows
MulOverflows(s) == s * 1000 >= WordModulus

StatusCodes == {199, 200, 299, 300, 400, 428, 429, 430, 499, 500, 599, 600}

\* What one send() returns.  Err(e) is returned for a connection-level error
\* and for a request that could not be built (a URL that does not parse);
\* a response has a status, maybe a Retry-After header, and a body that
\* deserializes into ChatResponse or does not.
SendResults(url_valid) ==
    IF ~url_valid THEN {[kind |-> "err", error |-> "invalid_url"]}
    ELSE {[kind |-> "err", error |-> "network"]}
         \cup {[kind |-> "response", code |-> c, retry_after |-> h, body_ok |-> b] :
                 c \in StatusCodes, h \in RetryAfterHeaders, b \in {TRUE}}
         \cup {[kind |-> "response", code |-> c, retry_after |-> None, body_ok |-> FALSE] :
                 c \in {200, 299}}

\* Values drawn by the random generator during a chat call, in thousandths.
ChatDraws == {0, JITTER_FACTOR_PERMILLE - 1}

Returned(c, ret) == [c EXCEPT !.pc = "returned", !.ret = ret]

Sleeping(c, wait_ms, from) ==
    [c EXCEPT !.pc = "sleep", !.wait_ms = wait_ms, !.from = from]

\* The body of the loop of chat_sync from the return of send() to the call of
\* thread::sleep or to the return; c.attempt is already incremented.
AfterSend(c, o, draw) ==
    IF o.kind = "response"
    THEN IF IsSuccess(o.code)
         THEN IF o.body_ok
              THEN Returned(c, [ok |-> TRUE, retries |-> c.total_retries])
              ELSE Returned(c, [ok |-> FALSE, error |-> "decode"])
         ELSE IF IsRetryableStatus(o.code)
         THEN IF c.attempt >= MAX_RETRIES
              THEN Returned(c, [ok |-> FALSE, error |-> "api_error_after_retries"])
              ELSE LET secs == RetryAfterSecs(o.retry_after)
                   IN  IF ~IsSome(secs)
                       THEN Sleeping(c, JitteredBackoff(c.backoff_ms, draw), "jitter")
                       ELSE IF ~MulOverflows(Unwrap(secs))
                       THEN Sleeping(c, Unwrap(secs) * 1000, "retry_after")
                       ELSE IF c.overflow_checks
                       THEN [c EXCEPT !.pc = "panicked", !.overflowed = TRUE]
                       ELSE [Sleeping(c, (Unwrap(secs) * 1000) % WordModulus,
                                      "retry_after") EXCEPT !.overflowed = TRUE]
         ELSE Returned(c, [ok |-> FALSE, error |-> "api_error"])
    ELSE IF c.attempt >= MAX_RETRIES
         THEN Returned(c, [ok |-> FALSE, error |-> "connection_error"])
         ELSE Sleeping(c, JitteredBackoff(c.backoff_ms, draw), "jitter")

\* One chat_sync call on a client whose base_url parses or does not, in a build
\* with or without overflow checks.
InitChat ==
    /\ now = 0
    /\ config = [failure_threshold |-> 1, recovery_timeout_secs |-> 1,
                 half_open_probes |-> 1, enabled |-> TRUE]
    /\ cb = CircuitBreakerStateDefault
    /\ trace = <<>>
    /\ run = 0
    /\ maxRun = 0
    /\ probes = 0
    /\ nops = 0
    /\ RegistriesIdle
    /\ hlast = [op |-> "none"]
    /\ succLats = EmptyMap
    /\ tripped = EmptyMap
    /\ hops = 0
    /\ threads = EmptyMap
    /\ plock = None
    /\ hlog = EmptyMap
    /\ blog = EmptyMap
    /\ scanners = EmptyMap
    /\ lastScan = [scanner |-> "none"]
    /\ nscans = 0
    /\ OnceIdle
    /\ AuditIdle
    /\ JitterIdle
    /\ MoreIdle
    /\ \E url_valid \in BOOLEAN, overflow_checks \in BOOLEAN :
        chat = [pc |-> "send", attempt |-> 0, backoff_ms |-> INITIAL_BACKOFF_MS,
                total_retries |-> 0, url_valid |-> url_valid,
                overflow_checks |-> overflow_checks, overflowed |-> FALSE,
                wait_ms |-> 0, from |-> "-", ret |-> [ok |-> FALSE, error |-> "-"],
                last |-> [kind |-> "none"], waits |-> <<>>]

\* attempt += 1; send(); the match on its result
ChatAttempt ==
    /\ chat.pc = "send"
    /\ \E o \in SendResults(chat.url_valid), draw \in ChatDraws :
        chat' = AfterSend([chat EXCEPT !.attempt = @ + 1, !.last = o], o, draw)
    /\ UNCHANGED <<now, cbVars, regVars, privVars, routeVars, healthHist,
                   mirrorVars, scanVars, onceVars, auditVars, jlast, moreVars>>

\* thread::sleep(wait_ms) returns; the backoff is doubled and the retry counted
ChatSleep ==
    /\ chat.pc = "sleep"
    /\ chat' = [chat EXCEPT !.pc = "send",
                            !.waits = Append(@, [ms |-> chat.wait_ms,
                                                 from |-> chat.from,
                                                 base |-> chat.backoff_ms]),
                            !.backoff_ms = NextBackoff(@),
                            !.total_retries = @ + 1]
    /\ UNCHANGED <<now, cbVars, regVars, privVars, routeVars, healthHist,
                   mirrorVars, scanVars, onceVars, auditVars, jlast, moreVars>>

NextChat == ChatAttempt \/ ChatSleep

SpecChat == InitChat /\ [][NextChat]_vars

\* ------------------------------------------- jittered_backoff called directly
JitterBases ==
    (0..MaxSmallBase)
        \cup {INITIAL_BACKOFF_MS, 2 * INITIAL_BACKOFF_MS, 46153, 46154,
              MAX_BACKOFF_MS - 1, MAX_BACKOFF_MS}

JitterDraws == 0..(JITTER_FACTOR_PERMILLE - 1)

\* The arguments of one call: every base of JitterBases with every draw.
InitJitter ==
    /\ now = 0
    /\ config = [failure_threshold |-> 1, recovery_timeout_secs |-> 1,
                 half_open_probes |-> 1, enabled |-> TRUE]
    /\ cb = CircuitBreakerStateDefault
    /\ trace = <<>>
    /\ run = 0
    /\ maxRun = 0
    /\ probes = 0
    /\ nops = 0
    /\ RegistriesIdle
    /\ hlast = [op |-> "none"]
    /\ succLats = EmptyMap
    /\ tripped = EmptyMap
    /\ hops = 0
    /\ threads = EmptyMap
    /\ plock = None
    /\ hlog = EmptyMap
    /\ blog = EmptyMap
    /\ scanners = EmptyMap
    /\ lastScan = [scanner |-> "none"]
    /\ nscans = 0
    /\ OnceIdle
    /\ AuditIdle
    /\ ChatIdle
    /\ MoreIdle
    /\ \E base_ms \in JitterBases, draw \in JitterDraws :
        jlast = [op |-> "args", base_ms |-> base_ms, draw |-> draw]

\* jittered_backoff(base_ms)
JitterCall ==
    /\ jlast.op = "args"
    /\ jlast' = [op |-> "jittered_backoff", base_ms |-> jlast.base_ms,
                 draw |-> jlast.draw,
                 ret |-> JitteredBackoff(jlast.base_ms, jlast.draw)]
    /\ UNCHANGED <<now, cbVars, regVars, privVars, routeVars, healthHist,
                   mirrorVars, scanVars, onceVars, auditVars, chat, moreVars>>

NextJitter == JitterCall

SpecJitter == InitJitter /\ [][NextJitter]_vars

\* ------------------------------------------- properties of one breaker
\* cb is changed by calls only, so at every state it is the state the last
\* call left and trace[1].pre is the state that call found.
After(op) == trace # <<>> /\ trace[1].op = op
Pre == trace[1].pre
\* Seconds between the failure recorded in st and instant t.
ElapsedAt(st, t) == t - Unwrap(st.last_failure_time)

\* C2: for an enabled breaker, a record_failure that brings the run of
\* failures since the last record_success to failure_threshold or more leaves
\* the state Open, and one that leaves the run shorter leaves a Closed breaker
\* Closed; a check that finds the breaker Open never returns Allow: it returns
\* Reject when less than recovery_timeout has elapsed since the last failure
\* and Probe otherwise.
C2_OpensAtThreshold ==
    config.enabled =>
        /\ After("record_failure") /\ run >= config.failure_threshold
              => cb.state = "Open"
        /\ After("record_failure") /\ Pre.state = "Closed"
           /\ run < config.failure_threshold
              => cb.state = "Closed"
        /\ After("check") /\ Pre.state = "Open"
              => /\ IsSome(Pre.last_failure_time)
                 /\ trace[1].decision =
                       (IF ElapsedAt(Pre, trace[1].at) < config.recovery_timeout_secs
                        THEN "Reject" ELSE "Probe")

\* C2 witness: threshold 2, two failures from Closed, then a check in the
\* recovery window that is rejected.
C2_Witness ==
    /\ config.enabled /\ config.failure_threshold = 2
    /\ Len(trace) = 2
    /\ trace[2].op = "record_failure" /\ trace[2].pre.state = "Closed"
    /\ trace[2].pre.consecutive_failures = 1
    /\ trace[1].op = "check" /\ trace[1].decision = "Reject"
    /\ run = 2

\* C3: the state goes from Open to HalfOpen only in a check made when at
\* least recovery_timeout has elapsed since last_failure_time, and that check
\* returns Probe with consecutive_successes = 0; a check on an Open breaker
\* before that returns Reject, leaves it Open and adds exactly one to
\* total_rejections; nothing else changes total_rejections.
C3_HalfOpenOnlyInCheck ==
    trace # <<>> =>
        /\ cb.state = "HalfOpen" /\ Pre.state # "HalfOpen"
              => /\ Pre.state = "Open"
                 /\ trace[1].op = "check"
                 /\ ElapsedAt(Pre, trace[1].at) >= config.recovery_timeout_secs
                 /\ trace[1].decision = "Probe"
                 /\ cb.consecutive_successes = 0
        /\ config.enabled /\ After("check") /\ Pre.state = "Open"
              => IF ElapsedAt(Pre, trace[1].at) >= config.recovery_timeout_secs
                 THEN /\ cb.state = "HalfOpen"
                      /\ trace[1].decision = "Probe"
                      /\ cb.total_rejections = Pre.total_rejections
                 ELSE /\ cb.state = "Open"
                      /\ trace[1].decision = "Reject"
                      /\ cb.total_rejections = Pre.total_rejections + 1
        /\ cb.total_rejections # Pre.total_rejections
              => /\ trace[1].op = "check"
                 /\ Pre.state = "Open"
                 /\ trace[1].decision = "Reject"
                 /\ cb.total_rejections = Pre.total_rejections + 1

\* C3 witness: with recovery_timeout 1, a check exactly one second after the
\* failure moves the breaker to HalfOpen, after an earlier check was rejected.
C3_Witness ==
    /\ config.recovery_timeout_secs = 1
    /\ After("check") /\ Pre.state = "Open" /\ cb.state = "HalfOpen"
    /\ ElapsedAt(Pre, trace[1].at) = 1
    /\ cb.total_rejections = 1

\* C4: a record_success on a HalfOpen breaker closes it exactly when the
\* successes recorded since it entered HalfOpen (no failure between) reach
\* half_open_probes, resetting consecutive_successes to 0; with fewer it
\* stays HalfOpen; no other call closes a HalfOpen breaker.
C4_HalfOpenClosesAtQuota ==
    config.enabled /\ trace # <<>> /\ Pre.state = "HalfOpen" =>
        /\ After("record_success")
              => IF probes >= config.half_open_probes
                 THEN cb.state = "Closed" /\ cb.consecutive_successes = 0
                 ELSE cb.state = "HalfOpen" /\ cb.consecutive_successes = probes
        /\ cb.state = "Closed"
              => /\ trace[1].op = "record_success"
                 /\ probes >= config.half_open_probes
                 /\ (config.half_open_probes >= 1 => probes = config.half_open_probes)

\* C4 witness: half_open_probes 2, the second success in HalfOpen closes.
C4_Witness ==
    /\ config.enabled /\ config.half_open_probes = 2
    /\ Len(trace) = 2
    /\ trace[2].op = "record_success" /\ trace[2].pre.state = "HalfOpen"
    /\ trace[1].op = "record_success" /\ trace[1].pre.state = "HalfOpen"
    /\ cb.state = "Closed" /\ probes = 2

\* C5: a record_failure on a HalfOpen breaker leaves it Open with
\* consecutive_successes = 0 and last_failure_time = now, whatever successes
\* were counted, and the following check honours the restarted timeout.
C5_HalfOpenFailureReopens ==
    config.enabled =>
        /\ After("record_failure") /\ Pre.state = "HalfOpen"
              => /\ cb.state = "Open"
                 /\ cb.consecutive_successes = 0
                 /\ cb.last_failure_time = Some(trace[1].at)
        /\ Len(trace) = 2 /\ trace[1].op = "check"
           /\ trace[2].op = "record_failure" /\ trace[2].pre.state = "HalfOpen"
              => trace[1].decision =
                    (IF trace[1].at - trace[2].at >= config.recovery_timeout_secs
                     THEN "Probe" ELSE "Reject")

\* C5 witness: a failure after one counted probe success, at a later instant
\* than the failure that opened the circuit.
C5_Witness ==
    /\ config.enabled
    /\ After("record_failure") /\ Pre.state = "HalfOpen"
    /\ Pre.consecutive_successes = 1
    /\ Unwrap(Pre.last_failure_time) < trace[1].at
    /\ cb.state = "Open"

\* C6: a record_success on a Closed breaker sets consecutive_failures to 0,
\* and as long as every run of failures has been shorter than
\* failure_threshold the breaker is Closed.
C6_SuccessResetsCount ==
    /\ config.enabled /\ After("record_success") /\ Pre.state = "Closed"
          => cb.state = "Closed" /\ cb.consecutive_failures = 0
    /\ maxRun < config.failure_threshold => cb.state = "Closed"

\* C6 witness: threshold 2 and the calls F, S, F, S, F: three failures in
\* all, no run longer than one.
C6_Witness ==
    /\ config.enabled /\ config.failure_threshold = 2
    /\ maxRun = 1 /\ run = 1
    /\ cb.total_failures = 3 /\ cb.total_successes = 2
    /\ cb.state = "Closed"

\* C7: with enabled = false every check returns Allow and the breaker stays
\* in its initial state, counters and last_failure_time included.
C7_DisabledIsInert ==
    ~config.enabled =>
        /\ cb = CircuitBreakerStateDefault
        /\ After("check") => trace[1].decision = "Allow"

\* C7 witness: a disabled breaker checked right after three failures.
C7_Witness ==
    /\ ~config.enabled
    /\ run = 3
    /\ Len(trace) = 2 /\ trace[2].op = "record_failure" /\ trace[1].op = "check"

\* C8: for every configuration of an enabled breaker, state = Closed implies
\* consecutive_failures < failure_threshold.
C8_ClosedBelowThreshold ==
    config.enabled /\ cb.state = "Closed"
        => cb.consecutive_failures < config.failure_threshold

\* C9: for every configuration of an enabled breaker, state = HalfOpen
\* implies consecutive_successes < half_open_probes.
C9_HalfOpenBelowQuota ==
    config.enabled /\ cb.state = "HalfOpen"
        => cb.consecutive_successes < config.half_open_probes

\* C10: a record_success on an Open breaker leaves it Closed with
\* consecutive_failures = 0, whatever time has elapsed and without HalfOpen;
\* the check that follows returns Allow.
C10_SuccessOnOpenCloses ==
    config.enabled =>
        /\ After("record_success") /\ Pre.state = "Open"
              => cb.state = "Closed" /\ cb.consecutive_failures = 0
        /\ Len(trace) = 2 /\ trace[1].op = "check"
           /\ trace[2].op = "record_success" /\ trace[2].pre.state = "Open"
              => trace[1].decision = "Allow" /\ cb.state = "Closed"

\* C10 witness: the success arrives in the same second as the failure that
\* opened the circuit, with recovery_timeout 1, and the next check allows.
C10_Witness ==
    /\ config.enabled /\ config.recovery_timeout_secs = 1
    /\ Len(trace) = 2
    /\ trace[2].op = "record_success" /\ trace[2].pre.state = "Open"
    /\ trace[2].at = Unwrap(trace[2].pre.last_failure_time)
    /\ trace[1].op = "check" /\ trace[1].decision = "Allow"

\* ------------------------------------------------- properties of route
\* C1: when the scan of the prompt yields Strict, every backend whose
\* transport the route calls has zdr_map[b] = true; a backend with no entry is
\* never called; at every level the called backends are acceptable.
C1_StrictCallsOnlyZdr ==
    \A i \in 1..Len(calls) :
        /\ IsBackendAcceptable(ZdrOf(zdr_map, calls[i]), rt.scan.level)
        /\ rt.scan.level = "Strict"
              => calls[i] \in DOMAIN zdr_map /\ zdr_map[calls[i]] = TRUE

\* C1 witness: a prompt escalated to Strict, a candidate list whose first
\* member has no zdr_map entry, and the transport of the second member, which
\* an earlier route call already used, being called.
C1_Witness ==
    /\ rt.scan.level = "Strict" /\ rt.scan.escalated
    /\ Len(rt.candidates) = 2
    /\ rt.candidates[1] \notin DOMAIN zdr_map
    /\ calls = <<rt.candidates[2]>>
    /\ rt.candidates[2] \in DOMAIN providers
    /\ pc = "call"

\* C11: a record_failure on an Open breaker leaves it Open, adds one to
\* total_failures and to consecutive_failures and sets last_failure_time to
\* the instant of the call; the check that follows it returns Reject while
\* less than recovery_timeout has elapsed since that most recent failure and
\* Probe otherwise.
C11_FailureOnOpenRestartsTimeout ==
    /\ After("record_failure") /\ Pre.state = "Open"
          => /\ cb.state = "Open"
             /\ cb.total_failures = Pre.total_failures + 1
             /\ cb.consecutive_failures = Pre.consecutive_failures + 1
             /\ cb.last_failure_time = Some(trace[1].at)
    /\ Len(trace) = 2 /\ trace[2].op = "record_failure"
       /\ trace[2].pre.state = "Open" /\ trace[1].op = "check"
          => trace[1].decision =
                (IF trace[1].at - trace[2].at < config.recovery_timeout_secs
                 THEN "Reject" ELSE "Probe")

\* C11 witness: recovery_timeout 1; a failure on the Open breaker one second
\* after the failure that opened it, then a check in the same second: the
\* timeout measured from the opening failure has elapsed, the check is
\* rejected.
C11_Witness ==
    /\ config.recovery_timeout_secs = 1
    /\ Len(trace) = 2
    /\ trace[2].op = "record_failure" /\ trace[2].pre.state = "Open"
    /\ trace[1].at - Unwrap(trace[2].pre.last_failure_time) >= 1
    /\ trace[1].op = "check" /\ trace[1].decision = "Reject"
    /\ cb.state = "Open"

\* ------------------------------------- properties of the health registry
\* providers is changed by calls only: at every state it is what the last
\* call left, and hlast.pre is what that call found.
HAfter(op) == hlast.op = op
HPre(b) == EntryOrDefault(hlast.pre, b)
HPost(b) == EntryOrDefault(providers, b)
HReads == {"get_health", "is_available", "filter_available"}

\* C12: no backend has both consecutive_failures and consecutive_successes
\* non-zero; right after record_success(b, _) b has consecutive_failures = 0
\* and no cooldown_until; right after record_failure(b) b has
\* consecutive_successes = 0.
C12_RunsExclusive ==
    /\ \A b \in DOMAIN providers :
          ~(providers[b].consecutive_failures > 0
            /\ providers[b].consecutive_successes > 0)
    /\ HAfter("record_success")
          => /\ hlast.b \in DOMAIN providers
             /\ providers[hlast.b].consecutive_failures = 0
             /\ providers[hlast.b].consecutive_successes
                   = HPre(hlast.b).consecutive_successes + 1
             /\ providers[hlast.b].cooldown_until = None
    /\ HAfter("record_failure")
          => /\ hlast.b \in DOMAIN providers
             /\ providers[hlast.b].consecutive_successes = 0
             /\ providers[hlast.b].consecutive_failures
                   = HPre(hlast.b).consecutive_failures + 1

\* C12 witness: a failure recorded on a backend whose run of successes was
\* not empty; it starts a run of failures of length 1 and a cooldown.
C12_Witness ==
    /\ HAfter("record_failure")
    /\ HPre(hlast.b).consecutive_successes > 0
    /\ providers[hlast.b].consecutive_failures = 1
    /\ IsSome(providers[hlast.b].cooldown_until)

\* C13: cooldown_until of a backend goes from unset to set, or to another
\* instant, only in a record_failure on that backend after which
\* consecutive_failures >= unhealthy_failure_count, and it is then the instant
\* of the call plus cooldown_secs; a record_failure that leaves
\* consecutive_failures below unhealthy_failure_count leaves cooldown_until as
\* it was; get_health, is_available, filter_available and a breaker check
\* leave the whole providers map as it was.
C13_CooldownSetByTrippingFailure ==
    hlast.op # "none" =>
        /\ \A b \in Backends :
              HPost(b).cooldown_until # HPre(b).cooldown_until
              /\ IsSome(HPost(b).cooldown_until)
                 => /\ HAfter("record_failure") /\ hlast.b = b
                    /\ HPost(b).consecutive_failures >= hconfig.unhealthy_failure_count
        /\ HAfter("record_failure")
              => IF HPost(hlast.b).consecutive_failures >= hconfig.unhealthy_failure_count
                 THEN HPost(hlast.b).cooldown_until
                          = Some(hlast.at + hconfig.cooldown_secs)
                 ELSE HPost(hlast.b).cooldown_until = HPre(hlast.b).cooldown_until
        /\ hlast.op \in HReads \cup {"check"} => providers = hlast.pre

\* C13 witness: a second failure, one second after the one that started the
\* cooldown, moves cooldown_until to a later instant.
C13_Witness ==
    /\ HAfter("record_failure")
    /\ IsSome(HPre(hlast.b).cooldown_until)
    /\ IsSome(HPost(hlast.b).cooldown_until)
    /\ Unwrap(HPost(hlast.b).cooldown_until) > Unwrap(HPre(hlast.b).cooldown_until)

\* The rules of get_health, in order: each is <<condition, state>>.
HealthRules(st, hc, t) ==
    << <<IsSome(st.cooldown_until) /\ t < Unwrap(st.cooldown_until), "Unhealthy">>,
       <<st.consecutive_failures >= hc.unhealthy_failure_count, "Unhealthy">>,
       <<st.consecutive_failures >= hc.degraded_failure_count, "Degraded">>,
       <<st.recent_latencies # <<>>
         /\ AvgLatency(st)[1] > hc.degraded_latency_ms * AvgLatency(st)[2], "Degraded">>,
       <<TRUE, "Healthy">> >>

FirstMatch(rules) ==
    LET i == CHOOSE j \in 1..Len(rules) :
                 rules[j][1] /\ \A k \in 1..(j - 1) : ~rules[k][1]
    IN rules[i][2]

\* C14: get_health(b) is the state of the first rule that matches, in the
\* order cooldown -> Unhealthy, consecutive_failures >= unhealthy_failure_count
\* -> Unhealthy, consecutive_failures >= degraded_failure_count -> Degraded,
\* mean latency > degraded_latency_ms -> Degraded, else Healthy; a backend
\* never recorded is Healthy.
C14_GetHealthFirstRule ==
    \A b \in Backends :
        GetHealth(hconfig, providers, b, now) =
            (IF b \in DOMAIN providers
             THEN FirstMatch(HealthRules(providers[b], hconfig, now))
             ELSE "Healthy")

\* C14 witness: get_health on a backend whose cooldown has elapsed and whose
\* run of failures matches both the unhealthy and the degraded rule: it is
\* Unhealthy; the other backend, never recorded, is Healthy.
C14_Witness ==
    /\ HAfter("get_health")
    /\ \E b \in DOMAIN providers :
          /\ IsSome(providers[b].cooldown_until)
          /\ now >= Unwrap(providers[b].cooldown_until)
          /\ providers[b].consecutive_failures >= hconfig.unhealthy_failure_count
          /\ providers[b].consecutive_failures >= hconfig.degraded_failure_count
          /\ hconfig.unhealthy_failure_count > hconfig.degraded_failure_count
          /\ GetHealth(hconfig, providers, b, now) = "Unhealthy"
    /\ \E b \in Backends \ DOMAIN providers :
          GetHealth(hconfig, providers, b, now) = "Healthy"

\* The last k elements of q, the number of times v occurs in q, the sum of q.
LastK(q, k) == SubSeq(q, Len(q) - k + 1, Len(q))
Occurrences(q, v) == Cardinality({i \in 1..Len(q) : q[i] = v})
RECURSIVE TotalTo(_, _)
TotalTo(q, i) == IF i = 0 THEN 0 ELSE q[i] + TotalTo(q, i - 1)
Min(a, b) == IF a < b THEN a ELSE b

RECURSIVE Restrict(_, _)
Restrict(backs, S) ==
    IF backs = <<>> THEN <<>>
    ELSE (IF Head(backs) \in S THEN <<Head(backs)>> ELSE <<>>)
         \o Restrict(Tail(backs), S)

\* The three reasons for which a backend is not available.
Unavailable(b) ==
    \/ linked /\ b \in DOMAIN breakers /\ breakers[b].state = "Open"
    \/ GetHealth(hconfig, providers, b, now) = "Unhealthy"
    \/ /\ b \in DOMAIN providers
       /\ IsSome(providers[b].cooldown_until)
       /\ now < Unwrap(providers[b].cooldown_until)

\* C16: is_available(b) is false exactly when the linked breaker of b is
\* Open, or get_health(b) is Unhealthy, or now is before cooldown_until of b;
\* it is true for a backend with no health state and no Open breaker;
\* filter_available(xs) is the
\* members of xs that are available, in the order of xs, repetitions kept.
C16_AvailableIff ==
    /\ \A b \in Backends :
          /\ IsAvailable(hconfig, providers, linked, breakers, b, now)
                = ~Unavailable(b)
          /\ b \notin DOMAIN providers /\ ~(linked /\ IsOpen(breakers, b))
                => IsAvailable(hconfig, providers, linked, breakers, b, now)
    /\ \A xs \in SeqsUpTo(Backends, MaxCands) :
          FilterAvailable(hconfig, providers, linked, breakers, xs, now)
              = Restrict(xs, {b \in Backends : ~Unavailable(b)})

\* C16 witness: filter_available when one backend is out only because its
\* breaker is Open (one failure, below unhealthy_failure_count) and the other
\* is available: <<b, other>> is filtered to <<other>>.
C16_Witness ==
    /\ HAfter("filter_available")
    /\ \E b \in Backends, other \in Backends :
          /\ linked /\ IsOpen(breakers, b)
          /\ GetHealth(hconfig, providers, b, now) # "Unhealthy"
          /\ ~IsAvailable(hconfig, providers, linked, breakers, b, now)
          /\ other \in DOMAIN providers
          /\ FilterAvailable(hconfig, providers, linked, breakers,
                             <<b, other>>, now) = <<other>>

\* C17: from a record_failure(b) that brings consecutive_failures of b to
\* unhealthy_failure_count or more, is_available(b) is false in every state
\* until cooldown_secs has elapsed since that failure or a record_success on
\* b has been recorded.  tripped holds the instant of the latest such failure
\* of b and is emptied by record_success on b.
C17_UnavailableDuringCooldown ==
    \A b \in Backends :
        IsSome(TrippedAt(tripped, b))
        /\ now - Unwrap(TrippedAt(tripped, b)) < hconfig.cooldown_secs
           => ~IsAvailable(hconfig, providers, linked, breakers, b, now)

\* C17 witness: is_available asked inside the cooldown of a backend that a
\* failure made unhealthy, with no linked breaker to keep it out.
C17_Witness ==
    /\ HAfter("is_available")
    /\ ~linked
    /\ hconfig.unhealthy_failure_count > 0
    /\ \E b \in Backends :
          /\ IsSome(TrippedAt(tripped, b))
          /\ now - Unwrap(TrippedAt(tripped, b)) < hconfig.cooldown_secs
          /\ providers[b].consecutive_failures = hconfig.unhealthy_failure_count
          /\ ~IsAvailable(hconfig, providers, linked, breakers, b, now)

\* C18: right after record_success(b, _), whatever came before and with or
\* without a linked breaker registry, is_available(b) is true.
C18_AvailableAfterSuccess ==
    HAfter("record_success")
        => IsAvailable(hconfig, providers, linked, breakers, hlast.b, now)

\* The same for unhealthy_failure_count >= 1.
AvailableAfterSuccessWhenCountPositive ==
    HAfter("record_success") /\ hconfig.unhealthy_failure_count >= 1
        => IsAvailable(hconfig, providers, linked, breakers, hlast.b, now)

\* q is an initial part of r.
IsPrefix(q, r) == Len(q) <= Len(r) /\ SubSeq(r, 1, Len(q)) = q
NumOf(q, o) == Cardinality({i \in 1..Len(q) : q[i].o = o})
Notifying(b) == {t \in Threads : threads[t].pc = "notify" /\ threads[t].b = b}

\* C19: with a breaker registry attached, each record_success /
\* record_failure on the health registry is passed exactly once to the
\* backend's breaker, after the providers entry has been updated, and with
\* concurrent callers the breaker of a backend receives the outcomes in the
\* order in which the providers map took them: the breaker's log is an
\* initial part of the health log, short of it by the calls still on their
\* way, and the counters of both sides agree with the logs.
C19_MirrorInOrder ==
    linked =>
        \A b \in Backends :
            /\ IsPrefix(LogOf(blog, b), LogOf(hlog, b))
            /\ Len(LogOf(hlog, b)) - Len(LogOf(blog, b)) = Cardinality(Notifying(b))
            /\ HPost(b).successful_requests = NumOf(LogOf(hlog, b), "success")
            /\ HPost(b).failed_requests = NumOf(LogOf(hlog, b), "failure")
            /\ RegGet(breakers, b).total_successes = NumOf(LogOf(blog, b), "success")
            /\ RegGet(breakers, b).total_failures = NumOf(LogOf(blog, b), "failure")

\* C19 witness: two threads have recorded different outcomes for one backend
\* and both calls have returned; the breaker has them in the same order.
C19_Witness ==
    /\ linked
    /\ \A t \in Threads : threads[t].pc = "idle"
    /\ \E b \in DOMAIN blog :
          /\ Len(blog[b]) >= 2
          /\ blog[b][1].t # blog[b][2].t
          /\ blog[b][1].o # blog[b][2].o
          /\ blog[b] = hlog[b]

\* ------------------------------------------------ properties of scan
\* Pattern p occurs in text, letters compared without case.
LowerSeq(q) == [i \in 1..Len(q) |-> Lower(q[i])]
ContainsIgnoringCase(text, p) ==
    \E i \in 1..(Len(text) - Len(p) + 1) :
        SubSeq(LowerSeq(text), i, i + Len(p) - 1) = LowerSeq(p)

\* What scan must return on a prompt for a scanner with default level dl when
\* the patterns that count are pats.
ScanAgrees(r, dl, pats, prompt) ==
    IF \E i \in 1..Len(pats) : ContainsIgnoringCase(prompt, pats[i])
    THEN /\ r.level = "Strict"
         /\ r.sensitive_detected
         /\ r.escalated = (dl # "Strict")
    ELSE /\ r.level = dl
         /\ ~r.sensitive_detected
         /\ ~r.escalated
         /\ r.matched_patterns = <<>>

\* C20 as stated: every scan, by any scanner after any scans by any scanners
\* of the process, answers according to the strict_patterns of the scanner
\* it is called on.
C20_ScanFollowsOwnPatterns ==
    lastScan.scanner # "none" =>
        ScanAgrees(lastScan.result,
                   scanners[lastScan.scanner].default_level,
                   scanners[lastScan.scanner].strict_patterns,
                   lastScan.prompt)

\* C20: every scan answers according to the strict_patterns of the scanner
\* that made the first scan of the process and to the default_level of the
\* scanner it is called on: a prompt matching one of those patterns gets
\* Strict, sensitive_detected and escalated = (default_level # Strict); one
\* matching none gets default_level, no detection, no escalation, no matched
\* pattern.
C20_ScanFollowsFirstPatterns ==
    lastScan.scanner # "none" =>
        ScanAgrees(lastScan.result,
                   scanners[lastScan.scanner].default_level,
                   scanners[lastScan.first].strict_patterns,
                   lastScan.prompt)

\* C20 witness: a scan by a scanner whose own patterns do not occur in the
\* prompt, after the first scan was made by a scanner whose pattern does:
\* the result is Strict.
C20_Witness ==
    /\ lastScan.scanner # "none"
    /\ lastScan.first # lastScan.scanner
    /\ \A i \in 1..Len(scanners[lastScan.scanner].strict_patterns) :
          ~ContainsIgnoringCase(lastScan.prompt,
                                scanners[lastScan.scanner].strict_patterns[i])
    /\ lastScan.result.level = "Strict"
    /\ lastScan.result.sensitive_detected

\* The well-formed patterns of a list, in order, and those of them that occur
\* in a prompt.
WellFormed(pats) ==
    LET Ok(p) == \A i \in 1..Len(p) : p[i] # "("
    IN SelectSeq(pats, Ok)
OccurringIn(pats, prompt) ==
    LET Hit(p) == ContainsIgnoringCase(prompt, p)
    IN SelectSeq(pats, Hit)

\* C21: the compiled pattern set is fixed by the first scan of the process:
\* the initialiser runs at most once, also when scans start concurrently;
\* from then on the cell holds the well-formed strict_patterns of the scanner
\* it ran for; and every scan, on whatever scanner, reports exactly the
\* patterns of that first scanner that occur in its prompt.
C21_PatternsFixedByFirstScan ==
    /\ Len(initLog) <= 1
    /\ IsSome(compiled)
          => /\ Len(initLog) >= 1
             /\ Unwrap(compiled) = WellFormed(scanners[initLog[1]].strict_patterns)
    /\ lastScan.scanner # "none"
          => /\ lastScan.first = initLog[1]
             /\ lastScan.result.matched_patterns =
                   OccurringIn(WellFormed(scanners[initLog[1]].strict_patterns),
                               lastScan.prompt)
             /\ ScanAgrees(lastScan.result,
                           scanners[lastScan.scanner].default_level,
                           scanners[initLog[1]].strict_patterns,
                           lastScan.prompt)

\* C21 witness: two scans started while the cell was empty, on scanners with
\* different strict_patterns; the one that did not run the initialiser has
\* returned, and it reports a pattern that its own scanner does not hold.
C21_Witness ==
    /\ lastScan.scanner # "none"
    /\ lastScan.raced
    /\ lastScan.scanner # lastScan.first
    /\ lastScan.result.matched_patterns # <<>>
    /\ \A i \in 1..Len(scanners[lastScan.scanner].strict_patterns) :
          scanners[lastScan.scanner].strict_patterns[i]
              # lastScan.result.matched_patterns[1]

\* ------------------------- properties of the ZDR filter and the audit log
\* C22: filter_zdr_backends(xs, m, false) is xs, order and repetitions kept;
\* filter_zdr_backends(xs, m, true) is the members x of xs with m[x] = true,
\* in the order of xs, a member with no entry in m counting as false.
C22_FilterZdr ==
    plast.op = "filter_zdr_backends" =>
        IF plast.require_zdr
        THEN plast.ret = Restrict(plast.xs, {x \in DOMAIN plast.m : plast.m[x]})
        ELSE plast.ret = plast.xs

\* C22 witness: require_zdr, a list of a backend with no entry in the map
\* followed by one whose entry is true: only the second is returned.
C22_Witness ==
    /\ plast.op = "filter_zdr_backends"
    /\ plast.require_zdr
    /\ Len(plast.xs) = 2
    /\ plast.xs[1] \notin DOMAIN plast.m
    /\ plast.xs[2] \in DOMAIN plast.m /\ plast.m[plast.xs[2]]
    /\ plast.ret = <<plast.xs[2]>>

\* C23: record_violation adds exactly one record, at the end of the log,
\* when level is Sensitive or Strict and has_zdr is false, and otherwise
\* leaves the log as it was; no call removes, moves or changes a record;
\* recent(n) is the last min(n, length) records in the order of the log.
C23_AuditAppendOnly ==
    plast.op # "none" =>
        /\ IsPrefix(plast.pre, violations)
        /\ plast.op = "record_violation"
              => IF plast.level \in {"Sensitive", "Strict"} /\ ~plast.has_zdr
                 THEN /\ Len(violations) = Len(plast.pre) + 1
                      /\ violations[Len(violations)] =
                            [privacy_level |-> plast.level,
                             backend |-> plast.backend,
                             backend_has_zdr |-> FALSE,
                             matched_patterns |-> plast.patterns]
                 ELSE violations = plast.pre
        /\ plast.op # "record_violation" => violations = plast.pre
        /\ plast.op = "recent"
              => /\ Len(plast.ret) = Min(plast.n, Len(violations))
                 /\ \A i \in 1..Len(plast.ret) :
                       plast.ret[i] =
                           violations[Len(violations) - Len(plast.ret) + i]

\* C23 witness: a Sensitive violation on a non-ZDR backend is appended after
\* a different record.
C23_Witness ==
    /\ plast.op = "record_violation"
    /\ plast.level = "Sensitive" /\ ~plast.has_zdr
    /\ Len(plast.pre) = 1
    /\ Len(violations) = 2
    /\ violations[1] # violations[2]

\* ------------------------------------------------- properties of chat_sync
\* The attempt just made ended in a retryable HTTP status.
EndedRetryableStatus ==
    /\ chat.last.kind = "response"
    /\ chat.last.code = 429 \/ chat.last.code \in 500..599

\* The attempt just made ended in a network / connection-level error.
EndedNetworkError == chat.last.kind = "err" /\ chat.last.error = "network"

\* Sleeps started so far by the call (the one in progress included).
Sleeps == Len(chat.waits) + (IF chat.pc = "sleep" THEN 1 ELSE 0)

\* Every wait started so far, the one in progress included.
WaitsMs ==
    [k \in 1..Sleeps |-> IF k <= Len(chat.waits) THEN chat.waits[k].ms
                         ELSE chat.wait_ms]

\* C24: one chat call makes at most MAX_RETRIES = 5 sends and at most 4
\* sleeps and always returns (it never ends otherwise than by returning):
\* when the 5th attempt ends in a retryable status or a network error the call
\* fails without another sleep or send, and when it succeeds on attempt k the
\* returned retries equals k - 1.
C24_ChatBoundedAndReturns ==
    /\ chat.attempt <= MAX_RETRIES
    /\ Sleeps <= MAX_RETRIES - 1
    /\ chat.pc # "panicked"
    /\ (chat.attempt = MAX_RETRIES /\ (EndedRetryableStatus \/ EndedNetworkError))
           => (chat.pc = "returned" /\ ~chat.ret.ok /\ Sleeps = MAX_RETRIES - 1)
    /\ (chat.pc = "returned" /\ chat.ret.ok) => chat.ret.retries = chat.attempt - 1

\* What remains of C24 in the runs whose multiplication does not panic.
ChatBoundedWhenNoPanic == chat.pc # "panicked" => C24_ChatBoundedAndReturns

\* C25: an attempt is followed by a retry only if it ended in HTTP 429, in a
\* status of 500..599 or in a network error; every other outcome (any other
\* non-2xx status, a 2xx whose body does not deserialize, an invalid URL) ends
\* the call on that attempt with no sleep and no further send.
C25_RetryOnlyOnRetryable ==
    /\ chat.pc = "sleep" => (EndedRetryableStatus \/ EndedNetworkError)
    /\ (chat.attempt >= 1 /\ ~EndedRetryableStatus /\ ~EndedNetworkError
            /\ ~(chat.last.kind = "response" /\ chat.last.code \in 200..299
                     /\ chat.last.body_ok))
           => (chat.pc = "returned" /\ ~chat.ret.ok /\ Sleeps = chat.attempt - 1)

\* What remains of C25 for a client whose URL parses.
RetryOnlyOnRetryableWhenUrlValid == chat.url_valid => C25_RetryOnlyOnRetryable

RECURSIVE Pow2(_)
Pow2(n) == IF n = 0 THEN 1 ELSE 2 * Pow2(n - 1)

\* C26: the backoff base starts at INITIAL_BACKOFF_MS and is doubled, capped
\* at MAX_BACKOFF_MS, after every retry, those whose wait came from
\* Retry-After included: the base in force at the k-th retry is
\* min(1000 * 2^(k-1), 60000), and the base is always in [1000, 60000].
C26_BackoffDoubles ==
    /\ \A k \in 1..Len(chat.waits) :
           chat.waits[k].base = Min(1000 * Pow2(k - 1), 60000)
    /\ chat.backoff_ms = Min(1000 * Pow2(Len(chat.waits)), 60000)
    /\ 1000 <= chat.backoff_ms /\ chat.backoff_ms <= 60000

C26_Witness ==
    /\ chat.pc = "returned"
    /\ Len(chat.waits) = 4
    /\ chat.waits[1].from = "jitter"
    /\ chat.waits[3].from = "retry_after"
    /\ chat.waits[4].base = 8000

\* C27: every wait between two attempts is at most MAX_BACKOFF_MS = 60000 ms,
\* whether it comes from the jittered backoff or from a Retry-After header of
\* any integer value, so the total time slept by one call is at most
\* (MAX_RETRIES - 1) * MAX_BACKOFF_MS; and seconds * 1000 never overflows.
C27_WaitsBounded ==
    /\ \A k \in 1..Sleeps : WaitsMs[k] <= MAX_BACKOFF_MS
    /\ TotalTo(WaitsMs, Sleeps) <= (MAX_RETRIES - 1) * MAX_BACKOFF_MS
    /\ ~chat.overflowed

\* What remains of C27: the waits that come from the jittered backoff are
\* within MAX_BACKOFF_MS.
JitteredWaitsBounded ==
    /\ \A k \in 1..Len(chat.waits) :
           chat.waits[k].from = "jitter" => chat.waits[k].ms <= MAX_BACKOFF_MS
    /\ chat.pc = "sleep" /\ chat.from = "jitter" => chat.wait_ms <= MAX_BACKOFF_MS

RECURSIVE IsSublist(_, _)
\* q is r with some members left out, the order kept.
IsSublist(q, r) ==
    IF q = <<>> THEN TRUE
    ELSE IF r = <<>> THEN FALSE
    ELSE IF Head(q) = Head(r) THEN IsSublist(Tail(q), Tail(r))
    ELSE IsSublist(q, Tail(r))

\* Outcomes o recorded for backend b by the route call.
RecordedFor(b, o) ==
    Cardinality({k \in 1..Len(rt.recorded) :
                    rt.recorded[k].b = b /\ rt.recorded[k].outcome = o})

\* C29: route tries the backends that survive the two filters strictly in the
\* caller's input order and returns the response of the first one whose
\* transport call succeeds; each backend whose transport was called gets
\* exactly one outcome recorded on the health registry (record_failure for a
\* failed call, record_success for the one returned), and no backend after
\* the successful one is called or recorded.
C29_FirstEligibleInOrder ==
    LET rec == rt.recorded
        n == Len(rec)
        pending == IF pc = "call" THEN <<rt.available[rt.idx]>> ELSE <<>>
    IN  /\ IsSublist(rt.available, rt.candidates)
        /\ \A k \in 1..n : rec[k].b = rt.available[rec[k].idx]
        /\ \A k \in 1..(n - 1) :
               rec[k].idx < rec[k + 1].idx /\ rec[k].outcome = "failure"
        /\ pc = "call" /\ n > 0 => rec[n].idx < rt.idx
        /\ calls = [k \in 1..n |-> rec[k].b] \o pending
        /\ rt.result = "Ok" <=> (n > 0 /\ rec[n].outcome = "success")
        /\ rt.result = "Ok" => pc = "idle"
        /\ \A b \in Backends :
               LET st == EntryOrDefault(providers, b)
                   st0 == EntryOrDefault(rt.providers0, b)
               IN  /\ st.successful_requests - st0.successful_requests
                          = RecordedFor(b, "success")
                   /\ st.failed_requests - st0.failed_requests
                          = RecordedFor(b, "failure")
                   /\ st.total_requests - st0.total_requests
                          = RecordedFor(b, "success") + RecordedFor(b, "failure")

\* C29 witness: two different survivors; the transport of the first failed,
\* that of the second returned a response, and the route returned it.
C29_Witness ==
    /\ pc = "idle" /\ rt.result = "Ok"
    /\ Len(rt.available) = 2 /\ rt.available[1] # rt.available[2]
    /\ calls = rt.available
    /\ Len(rt.recorded) = 2
    /\ rt.recorded[1].outcome = "failure"
    /\ rt.recorded[2].outcome = "success"

\* C30: route fails with NoEligibleBackend exactly when the filters leave no
\* candidate, and then no transport was called; it fails with
\* AllBackendsFailed only when every surviving candidate was called and ended
\* in a transport failure, and it then carries the error of the last such
\* call (so a run whose survivors were all skipped on Reject does not end in
\* AllBackendsFailed).
C30_RouteFailures ==
    /\ nsteps > 0 => (rt.result = "NoEligibleBackend" <=> rt.available = <<>>)
    /\ rt.result = "NoEligibleBackend" => calls = <<>> /\ rt.recorded = <<>>
    /\ rt.result = "AllBackendsFailed" =>
           /\ Len(rt.recorded) = Len(rt.available)
           /\ \A k \in 1..Len(rt.recorded) :
                  rt.recorded[k].idx = k /\ rt.recorded[k].outcome = "failure"
           /\ rt.error = Some(Len(rt.available))

\* C31: whenever route returns a response obtained from a backend b whose
\* zdr_map entry is false or absent, for a request scanned Sensitive, that
\* call appends exactly one ZdrViolation for b, with level Sensitive, to the
\* audit log; a request of level Standard appends nothing, and a route that
\* has not returned a response (a failed call included) appends nothing.
C31_SensitiveOnNonZdrAudited ==
    LET n == Len(rt.recorded)
        b == rt.recorded[n].b
    IN  /\ rt.result = "Ok" /\ rt.scan.level = "Sensitive" /\ ~ZdrOf(zdr_map, b)
              => /\ Len(violations) = Len(rt.violations0) + 1
                 /\ SubSeq(violations, 1, Len(rt.violations0)) = rt.violations0
                 /\ violations[Len(violations)].backend = b
                 /\ violations[Len(violations)].privacy_level = "Sensitive"
                 /\ violations[Len(violations)].backend_has_zdr = FALSE
        /\ rt.scan.level = "Standard" => violations = rt.violations0
        /\ rt.result # "Ok" => violations = rt.violations0

\* C31 witness: a Sensitive request; the first survivor failed, the second,
\* which has no zdr_map entry, answered, and the audit log holds the one record
\* of that backend.
C31_Witness ==
    /\ pc = "idle" /\ rt.result = "Ok"
    /\ rt.scan.level = "Sensitive"
    /\ Len(rt.recorded) = 2
    /\ rt.recorded[2].b \notin DOMAIN zdr_map
    /\ Len(violations) = 1
    /\ violations[1].backend = rt.recorded[2].b

\* ------------------------------- properties of the registry's construction
\* C32: an invalid configuration, in particular latency_window = 0, is
\* rejected when the registry is constructed; for every configuration that
\* construction accepts, no later record_success, record_failure, get_health
\* or is_available call panics, and each returns.
C32_InvalidConfigRejected ==
    /\ hconfig.latency_window = 0 => vlast = [op |-> "new", outcome |-> "rejected"]
    /\ vlast.outcome # "panicked"

\* What remains of C32 for a window of at least 1: every call returns.
CallsReturnWhenWindowPositive ==
    hconfig.latency_window >= 1 => vlast.outcome = "returned" /\ ~poisoned

\* After new accepted a window of 0: the first record_success panics, and so
\* does every call after it.
PanicsWhenWindowZero ==
    hconfig.latency_window = 0 =>
        /\ vlast.op = "record_success" => vlast.outcome = "panicked"
        /\ poisoned /\ vlast.op # "new" => vlast.outcome = "panicked"

\* ------------------------- properties of the health registry, continued
\* C34: a backend that became unavailable because record_failure brought
\* consecutive_failures to unhealthy_failure_count becomes available again
\* once cooldown_secs has elapsed since its last failure, with no
\* record_success in between: is_available(b) is then true and
\* filter_available keeps b.  (Stated for unhealthy_failure_count >= 1 and
\* a backend whose breaker, if any, is not Open.)
C34_AvailableAfterCooldown ==
    \A b \in Backends :
        (/\ IsSome(TrippedAt(tripped, b))
         /\ now - Unwrap(TrippedAt(tripped, b)) >= hconfig.cooldown_secs
         /\ hconfig.unhealthy_failure_count >= 1
         /\ ~(linked /\ IsOpen(breakers, b)))
           => /\ IsAvailable(hconfig, providers, linked, breakers, b, now)
              /\ FilterAvailable(hconfig, providers, linked, breakers, <<b>>, now)
                     = <<b>>

\* What the code does instead: a backend made unhealthy by its failures is
\* unavailable, inside the cooldown and after it, until a record_success.
UnavailableUntilSuccess ==
    \A b \in Backends :
        IsSome(TrippedAt(tripped, b))
            => ~IsAvailable(hconfig, providers, linked, breakers, b, now)

\* ----------------------------------------- properties of route, continued
\* C33: with the health registry linked to an enabled breaker registry and
\* backends reached through route only, a backend whose breaker has opened is
\* not excluded forever: once recovery_timeout has elapsed since its last
\* failure, a route that starts with it as candidate keeps it through
\* filter_available (and so goes on to check it and to call it as a probe).
\* (Stated for a backend that the health rules alone do not keep out.)
C33_OpenBackendProbedAgain ==
    \A b \in Backends :
        (/\ pc = "idle" /\ linked /\ config.enabled
         /\ IsOpen(breakers, b)
         /\ now - Unwrap(breakers[b].last_failure_time) >= config.recovery_timeout_secs
         /\ GetHealth(hconfig, providers, b, now) # "Unhealthy")
           => FilterAvailable(hconfig, providers, linked, breakers, <<b>>, now) = <<b>>

\* What happens instead: a route started while the breaker of b is Open does
\* not keep b, whatever the time elapsed since the failure.
OpenBackendNeverSurvives ==
    \A b \in Backends :
        linked /\ IsOpen(breakers, b)
            => FilterAvailable(hconfig, providers, linked, breakers, <<b>>, now) = <<>>

\* No step of a route whose survivors the breaker let through when it started
\* takes a breaker out of Open, except a check on a backend that the same
\* route failed on before (a candidate list naming it twice).
OpenLeftOnlyWithinOneRoute ==
    [][\A b \in Backends :
          IsOpen(breakers, b) /\ ~IsOpen(breakers', b)
              => \E k \in 1..Len(rt.recorded) :
                    rt.recorded[k].b = b /\ rt.recorded[k].outcome = "failure"]_vars

\* --------------------------------- properties of one breaker, continued
\* C39: a probe is a single admission: once a check has moved the breaker
\* from Open to HalfOpen and returned Probe, no other check returns Probe or
\* Allow until a record_success or record_failure has been recorded.  check
\* runs under the write lock of the breaker, so concurrent checks take effect
\* one after the other; the check that comes right after the probing one is
\* looked at, for thresholds of at least 1.
C39_SingleProbe ==
    (/\ config.failure_threshold >= 1 /\ config.half_open_probes >= 1
     /\ Len(trace) = 2
     /\ trace[2].op = "check" /\ trace[2].pre.state = "Open"
     /\ trace[2].decision = "Probe"
     /\ trace[1].op = "check")
       => trace[1].decision = "Reject"

\* What the code does: every check on a HalfOpen breaker returns Probe.
HalfOpenAlwaysProbes ==
    (trace # <<>> /\ trace[1].op = "check" /\ trace[1].pre.state = "HalfOpen"
        /\ config.enabled)
       => trace[1].decision = "Probe" /\ cb = trace[1].pre

\* ------------------------- properties of the two registries together

\* C40: check, record_success and record_failure for one backend leave every
\* other backend as it was in both registries, breaker state and counters and
\* health state alike, absent entries staying absent; and the read operations
\* create no entry and change none.
C40_OtherBackendsUntouched ==
    /\ hlast.op \in {"check", "record_success", "record_failure"}
          => \A b2 \in Backends \ {hlast.b} :
                /\ EntryOf(providers, b2) = EntryOf(hlast.pre, b2)
                /\ EntryOf(breakers, b2) = EntryOf(hlast.preBr, b2)
    /\ hlast.op \in HReads
          => providers = hlast.pre /\ breakers = hlast.preBr

\* C40 witness: a record_failure on b1 that opens the breaker of b1 while b2,
\* recorded before, has its own counters and a Closed breaker.
C40_Witness ==
    /\ hlast.op = "record_failure" /\ hlast.b = "b1" /\ linked
    /\ "b2" \in DOMAIN providers /\ "b2" \in DOMAIN breakers
    /\ providers["b2"].successful_requests = 1
    /\ breakers["b2"].state = "Closed" /\ breakers["b2"].total_successes = 1
    /\ breakers["b1"].state = "Open"
    /\ providers["b1"].consecutive_failures = 1

\* -------------------------- properties of CircuitBreakerRegistry::get
\* C36: for every backend name and every interleaving of concurrent get,
\* check, record_success and record_failure calls, at most one breaker is ever
\* created for the name and every caller operates on that breaker: no outcome
\* goes to an instance that the map does not hold, and total_failures +
\* total_successes of the breaker is the number of completed record calls for
\* the backend.
C36_OneBreakerPerName ==
    /\ \A b \in Backends :
           Cardinality({i \in 1..Len(heap) : heap[i].name = b}) <= 1
    /\ \A t \in DOMAIN gthreads :
           gthreads[t].pc = "op"
               => /\ gthreads[t].b \in DOMAIN arcs
                  /\ arcs[gthreads[t].b] = gthreads[t].held
    /\ \A b \in Backends :
           IF b \in DOMAIN arcs
           THEN heap[arcs[b]].st.total_failures + heap[arcs[b]].st.total_successes
                    = DoneOf(gdone, b)
           ELSE DoneOf(gdone, b) = 0

\* C36, amended: for every backend name and every interleaving of concurrent
\* get, check, record_success and record_failure calls, at most one breaker is
\* ever created for the name and every caller operates on that breaker; and,
\* when the registry is enabled, total_failures + total_successes of the
\* breaker is the number of completed record calls for the backend.
C36_OneBreakerCountsWhenEnabled ==
    /\ \A b \in Backends :
           Cardinality({i \in 1..Len(heap) : heap[i].name = b}) <= 1
    /\ \A t \in DOMAIN gthreads :
           gthreads[t].pc = "op"
               => /\ gthreads[t].b \in DOMAIN arcs
                  /\ arcs[gthreads[t].b] = gthreads[t].held
    /\ config.enabled =>
           \A b \in Backends :
               IF b \in DOMAIN arcs
               THEN heap[arcs[b]].st.total_failures + heap[arcs[b]].st.total_successes
                        = DoneOf(gdone, b)
               ELSE DoneOf(gdone, b) = 0

\* A disabled registry records nothing, whatever the interleaving.
DisabledRegistryCountsNothing ==
    ~config.enabled =>
        \A i \in 1..Len(heap) :
            heap[i].st.total_failures = 0 /\ heap[i].st.total_successes = 0

\* C36 witness: two threads missed the same name under the read lock; the
\* second to take the write lock found the breaker the first had inserted, and
\* both outcomes are on it.
C36_Witness ==
    /\ config.enabled
    /\ \E t \in DOMAIN gthreads : gthreads[t].pc = "idle" /\ gthreads[t].raced
    /\ Len(heap) = 1
    /\ DoneOf(gdone, heap[1].name) = 2
    /\ heap[1].st.total_failures = 1 /\ heap[1].st.total_successes = 1

\* ------------------- the breaker's counters against the health registry's
\* C37: with an enabled breaker registry attached and outcomes recorded only
\* through the health registry, in every state in which no caller is inside
\* record_success / record_failure (nobody holds the providers lock), under
\* any interleaving of callers, for every backend the breaker's
\* consecutive_failures is the health registry's consecutive_failures and its
\* total_failures / total_successes are the health registry's failed_requests
\* / successful_requests.
C37_CountersAgree ==
    (linked /\ config.enabled /\ plock = None) =>
        \A b \in Backends :
            /\ RegGet(breakers, b).consecutive_failures = HPost(b).consecutive_failures
            /\ RegGet(breakers, b).total_failures = HPost(b).failed_requests
            /\ RegGet(breakers, b).total_successes = HPost(b).successful_requests

\* C37 witness: both threads have recorded for one backend, a success and
\* then two failures; all calls have returned and the run of failures is 2
\* on both sides.
C37_Witness ==
    /\ linked /\ config.enabled /\ plock = None
    /\ \E b \in DOMAIN breakers :
          /\ breakers[b].consecutive_failures = 2
          /\ breakers[b].total_successes = 1
          /\ HPost(b).consecutive_failures = 2
          /\ \E i, j \in 1..Len(LogOf(blog, b)) : blog[b][i].t # blog[b][j].t

\* ------------------------------------------------ properties of get_status
\* C38: get_status(b) returns a consistent snapshot under concurrent
\* record_success / record_failure / check calls on b: in every returned
\* status, available is false if and only if circuit_state is Open or health
\* is Unhealthy.
C38_StatusConsistent ==
    sreader.pc = "returned"
        => (~sreader.available
                <=> (sreader.circuit_state = "Open" \/ sreader.health = "Unhealthy"))

\* When no recorder or check has changed either registry between the call of
\* get_status and its return, the status is consistent.
StatusConsistentWhenUndisturbed ==
    (sreader.pc = "returned" /\ sreader.undisturbed /\ hconfig.unhealthy_failure_count >= 1)
        => (~sreader.available
                <=> (sreader.circuit_state = "Open" \/ sreader.health = "Unhealthy"))

\* --------------------------------------------- properties of the locks
\* Thread t is inside a call and its next step is a lock that cannot be
\* granted.
Blocked(t) ==
    /\ lthreads[t].prog # <<>>
    /\ ~Granted(Head(lthreads[t].prog), locks[Head(lthreads[t].prog).l])

\* Some thread waits for a lock and every thread that is inside a call
\* waits: no lock will ever be released.
Deadlocked ==
    /\ \E t \in DOMAIN lthreads : Blocked(t)
    /\ \A t \in DOMAIN lthreads : lthreads[t].prog = <<>> \/ Blocked(t)

\* C35: no interleaving of concurrent calls of the operations of the health
\* registry and of the linked breaker registry reaches a state in which a
\* thread waits forever for a lock, with read-write locks under which a
\* pending writer blocks new readers; in particular all_health_info completes
\* while another thread is recording an outcome.
C35_NoThreadWaitsForever == ~Deadlocked

\* Every deadlock has a thread inside all_health_info.
DeadlockOnlyInAllHealthInfo ==
    Deadlocked => \E t \in DOMAIN lthreads : lthreads[t].op = "all_health_info"

\* No thread ever holds the same lock twice but inside all_health_info.
RereadOnlyInAllHealthInfo ==
    \A l \in DOMAIN locks : \A t \in DOMAIN lthreads :
        locks[l].readers[t] > 1 => lthreads[t].op = "all_health_info"

====
